---- MODULE Spec2Model ----
(***************************************************************************)
(* Streaming transcription / translation pipeline of DeepTanslatey:        *)
(*   src/src/translator.py   TranslationCache, TranslationService          *)
(*   src/src/transcriber.py  DeepgramTranscriber (session, worker,         *)
(*                           keepalive, event handlers)                    *)
(* Threads are modelled as program counters; one action is one step a      *)
(* thread takes between two points where another thread may run.           *)
(***************************************************************************)
EXTENDS Integers, Sequences, FiniteSets, TLC

(***************************************************************************)
(* Bounds of the model                                                     *)
(***************************************************************************)
\* transcripts (final or interim) the connection emits during one session run
MaxMessages == 1
\* audio frames carrying data that the audio source returns
MaxFrames == 1
\* events kept in the consumer's log (the log keeps the first MaxLog events)
MaxLog == 3
\* the metrics counters of the session are kept within 0..MaxCount
MaxCount == 2

\* the longest list passed to translate_batch when the service is called directly
MaxBatch == 2
\* clock ticks of the cache scenario
MaxTime == 3
\* maxsize of the cache in the cache scenario
MaxCacheSize == 2
\* ttl_seconds of the cache in the cache scenario
TtlBound == 1
\* background save threads alive at once in the cache scenario
MaxSaves == 1
\* transcripts offered in the queue-overflow scenario beyond the capacity
OverflowExtra == 2
\* seconds on the clock of the keepalive scenario
MaxClock == 10
\* set calls a client makes in the periodic-save scenario
MaxSets == 10
\* final transcripts the connection emits in the ordering scenario
MaxItems == 3
\* save threads alive at once in the concurrent-save scenario
MaxWriters == 2

(***************************************************************************)
(* Program constants                                                       *)
(***************************************************************************)
\* transcriber.py:76  Queue(maxsize=100)
QueueMaxsize == 100
\* transcriber.py:90  len(batch_items) < 5
BatchSize == 5
\* translator.py:33   TranslationCache(maxsize=1000)
DefaultCacheMaxsize == 1000
\* translator.py:33   ttl_seconds=86400
DefaultTtl == 86400
\* translator.py:124  len(self._cache) % 10 == 0
SaveEvery == 10
\* translator.py:227  len(text) > 100
KeyHashThreshold == 100
\* transcriber.py:159 time.sleep(5.0)
KeepaliveInterval == 5
\* transcriber.py:163 current_time - self.last_audio_time > 8.0
SilenceThreshold == 8

(***************************************************************************)
(* Values                                                                  *)
(***************************************************************************)
\* Python's None
NoneVal == "<None>"

\* no real audio frame has been sent on the connection
NoFrame == -1

\* the keepalive thread has made no check
NoCheck == [silent |-> FALSE, outcome |-> "none"]

NoWire == [frame_at |-> NoFrame, check |-> NoCheck]

\* the listener's handler is not working on a transcript
NoEvent == [text |-> "", timestamp |-> 0]

Min(a, b) == IF a < b THEN a ELSE b

Max(a, b) == IF a > b THEN a ELSE b

\* an observer's counter: 0, 1, or 2 for "more than once"
Sat(n) == Min(n + 1, 2)

(***************************************************************************)
(* TranslationCache: an OrderedDict key -> value (oldest first) and a dict *)
(* key -> timestamp.  The OrderedDict is a sequence of [key, value].       *)
(***************************************************************************)
CacheKeys(c) == {c[i].key : i \in 1..Len(c)}

CacheIndex(c, k) == CHOOSE i \in 1..Len(c) : c[i].key = k

CacheValue(c, k) == c[CacheIndex(c, k)].value

\* del cache[k]
CacheDel(c, k) == SelectSeq(c, LAMBDA e : e.key # k)

\* OrderedDict.move_to_end(k)
MoveToEnd(c, k) == Append(CacheDel(c, k), c[CacheIndex(c, k)])

\* cache[k] = v: an existing key keeps its position, a new key goes last
CacheAssign(c, k, v) ==
    IF k \in CacheKeys(c)
    THEN [c EXCEPT ![CacheIndex(c, k)] = [key |-> k, value |-> v]]
    ELSE Append(c, [key |-> k, value |-> v])

\* dict.pop(k, None) / del d[k] on a function
DictDel(d, k) == [x \in (DOMAIN d) \ {k} |-> d[x]]

\* d[k] = v on a function
DictSet(d, k, v) == [x \in (DOMAIN d) \cup {k} |-> IF x = k THEN v ELSE d[x]]

\* d.get(k, default)
DictGet(d, k, default) == IF k \in DOMAIN d THEN d[k] ELSE default

EmptyDict == [x \in {} |-> 0]

(***************************************************************************)
(* State                                                                   *)
(***************************************************************************)
VARIABLES
    \* TranslationCache
    cache,              \* _cache: sequence of [key, value], least recently used first
    timestamps,         \* _timestamps: key -> time stored
    maxsize,            \* maxsize
    ttl_seconds,        \* ttl_seconds
    cache_file,         \* the persisted file: [kind, entries]
    save_threads,       \* background save threads: sequence of [pc, data]
    cache_op,           \* the last call on the cache and the history of the calls
    lock,               \* _lock: 0 when free, else the thread that holds it
    c_threads,          \* threads calling the cache, or the service, concurrently
    now,                \* time.time()
    \* TranslationService
    impl,               \* the preferred backend: "none", "deepl", "google"
    preferred_provider, \* "deepl", "google", NoneVal
    fallback_impl,      \* TRUE when a fallback backend is configured
    enable_cache,       \* enable_cache
    quality_metrics,    \* _quality_metrics
    svc_op,             \* the last call on the service and what it did
    \* DeepgramTranscriber
    is_recording,       \* the stop flag
    translation_queue,  \* Queue(maxsize=QueueMaxsize) of [text, timestamp]
    queue_maxsize,      \* translation_queue.maxsize
    unfinished_tasks,   \* translation_queue.unfinished_tasks
    transcription_count,
    bytes_sent,
    last_audio_time,
    last_transcript,
    last_translation,
    \* threads
    m_pc,               \* the thread running start()
    audio,              \* the AudioStream: "unopened", "failed", "open", "closed"
    conn,               \* the connection: "none", "failed", "open", "error", "closed"
    close_sent,         \* CloseStream control messages sent
    w_pc,               \* the translation worker thread
    batch_items,        \* the worker's local batch_items
    w_translations,     \* translations of the batch being processed
    w_i,                \* index of the next callback of the batch
    l_pc,               \* the listener thread
    l_event,            \* the event the listener's handler is working on
    k_pc,               \* the keepalive thread
    k_wake,             \* the time at which the keepalive thread's sleep ends
    wire,               \* what went out on the connection: the time of the last
                        \* real audio frame and the last keepalive check
    \* the environment and the observer
    msgs_left,          \* transcripts the connection will still emit
    stamp,              \* timestamps handed out by the handler so far
    events,             \* TranscriptionEvents the consumer callback received
    cb_count,           \* timestamp -> invocations of its completion callback
    asked,              \* timestamp -> provider requests made for the item
    accepted,           \* timestamps of the items put on the queue
    dropped,            \* timestamps of the items rejected by a full queue
    late,               \* timestamps accepted when is_recording was already false
    stop_requested      \* stop() has been called

cacheVars == <<cache, timestamps, maxsize, ttl_seconds, cache_file, save_threads,
               cache_op, lock, c_threads, now>>

serviceVars == <<impl, preferred_provider, fallback_impl, enable_cache,
                quality_metrics, svc_op>>

queueVars == <<translation_queue, queue_maxsize, unfinished_tasks>>

statVars == <<transcription_count, bytes_sent, last_audio_time, last_transcript,
              last_translation>>

mainVars == <<m_pc, audio, conn, close_sent>>

workerVars == <<w_pc, batch_items, w_translations, w_i>>

listenerVars == <<l_pc, l_event>>

keepaliveVars == <<k_pc, k_wake, wire>>

envVars == <<msgs_left, stamp>>

histVars == <<events, cb_count, asked, accepted, dropped, late, stop_requested>>

vars == <<cacheVars, serviceVars, is_recording, queueVars, statVars, mainVars,
          workerVars, listenerVars, keepaliveVars, envVars, histVars>>

(***************************************************************************)
(* TranslationCache operations on an object o = [cache, timestamps,        *)
(* spawned]; spawned counts the save threads the operation started.        *)
(***************************************************************************)
CacheObj(c, t) == [cache |-> c, timestamps |-> t, spawned |-> 0]

\* the TTL test of get
Expired(o, key, t, ttl) == t - DictGet(o.timestamps, key, 0) > ttl

\* a get that does not mark the key as recently used
GetStateNoTouch(o, key, t, ttl) ==
    IF key \in CacheKeys(o.cache) /\ Expired(o, key, t, ttl)
    THEN [o EXCEPT !.cache = CacheDel(@, key), !.timestamps = DictDel(@, key)]
    ELSE o

\* TranslationCache.get: the object after the call
GetState(o, key, t, ttl) ==
    IF key \in CacheKeys(o.cache)
    THEN IF Expired(o, key, t, ttl)
         THEN [o EXCEPT !.cache = CacheDel(@, key), !.timestamps = DictDel(@, key)]
         ELSE [o EXCEPT !.cache = MoveToEnd(@, key)]
    ELSE o

\* TranslationCache.get: the value returned
GetResult(o, key, t, ttl) ==
    IF key \in CacheKeys(o.cache) /\ ~Expired(o, key, t, ttl)
    THEN CacheValue(o.cache, key)
    ELSE NoneVal

\* a set whose capacity test is off by one
SetStateOffByOne(o, key, value, t, msize) ==
    LET c2 == CacheAssign(IF key \in CacheKeys(o.cache) THEN MoveToEnd(o.cache, key)
                          ELSE IF Len(o.cache) > msize THEN Tail(o.cache)
                          ELSE o.cache, key, value)
    IN  [cache |-> c2, timestamps |-> DictSet(o.timestamps, key, t),
         spawned |-> o.spawned]

\* a set that moves a resident key to the end but keeps its old value
SetBeginStateKeepsValue(o, key, value, msize) ==
    LET hit   == key \in CacheKeys(o.cache)
        evict == ~hit /\ Len(o.cache) >= msize
    IN  [o EXCEPT !.cache = IF hit THEN MoveToEnd(o.cache, key)
                            ELSE Append(IF evict THEN Tail(o.cache) ELSE o.cache,
                                        [key |-> key, value |-> value]),
                  !.timestamps = IF evict THEN DictDel(@, Head(o.cache).key) ELSE @]

\* TranslationCache.set up to self._cache[key] = value: the key is moved to
\* the end, or the least recently used entry is popped from both maps, and
\* the value is assigned
SetBeginState(o, key, value, msize) ==
    LET hit   == key \in CacheKeys(o.cache)
        evict == ~hit /\ Len(o.cache) >= msize
        c1    == IF hit THEN MoveToEnd(o.cache, key)
                 ELSE IF evict THEN Tail(o.cache) ELSE o.cache
        t1    == IF evict THEN DictDel(o.timestamps, Head(o.cache).key)
                 ELSE o.timestamps
    IN  [o EXCEPT !.cache = CacheAssign(c1, key, value), !.timestamps = t1]

\* the rest of TranslationCache.set: self._timestamps[key] = current_time and
\* the save every SaveEvery entries
SetEndState(o, key, t) ==
    [o EXCEPT !.timestamps = DictSet(@, key, t),
              !.spawned = @ + (IF Len(o.cache) % SaveEvery = 0 THEN 1 ELSE 0)]

\* TranslationCache.set: the object after the call
SetState(o, key, value, t, msize) ==
    SetEndState(SetBeginState(o, key, value, msize), key, t)

\* the persisted file: absent, or a JSON object given by its items in order
AbsentFile == [kind |-> "absent", entries |-> <<>>]

JsonFile(entries) == [kind |-> "json", entries |-> entries]

\* a file whose content is empty or blank
EmptyFile == [kind |-> "empty", entries |-> <<>>]

\* a file whose content json.loads rejects
InvalidFile == [kind |-> "invalid", entries |-> <<>>]

\* a file that holds valid JSON that is not an object: a list, a number, a string
NonObjectFile == [kind |-> "nonobject", entries |-> <<>>]

\* a load that does not test the age of the entries
RECURSIVE LoadEntriesAnyAge(_, _, _, _)
LoadEntriesAnyAge(entries, o, t, ttl) ==
    IF entries = <<>> THEN o
    ELSE LET e == Head(entries)
         IN  LoadEntriesAnyAge(Tail(entries),
                [o EXCEPT !.cache = CacheAssign(@, e.key, e.value),
                          !.timestamps = DictSet(@, e.key,
                                            IF e.kind = "dict" THEN e.timestamp ELSE t)],
                t, ttl)

\* the loop of _load_from_disk over data.items()
RECURSIVE LoadEntries(_, _, _, _)
LoadEntries(entries, o, t, ttl) ==
    IF entries = <<>> THEN o
    ELSE LET e  == Head(entries)
             o1 == IF e.kind = "dict"
                   THEN IF t - e.timestamp < ttl
                        THEN [o EXCEPT !.cache = CacheAssign(@, e.key, e.value),
                                       !.timestamps = DictSet(@, e.key, e.timestamp)]
                        ELSE o
                   ELSE IF e.kind = "str"
                   THEN [o EXCEPT !.cache = CacheAssign(@, e.key, e.value),
                                  !.timestamps = DictSet(@, e.key, t)]
                   ELSE o
         IN  LoadEntries(Tail(entries), o1, t, ttl)

\* a load that does not trim
TrimNothing(o, msize) == o

\* the trim of _load_from_disk: popitem(last=False) while over maxsize
RECURSIVE Trim(_, _)
Trim(o, msize) ==
    IF Len(o.cache) > msize
    THEN Trim([o EXCEPT !.cache = Tail(@),
                        !.timestamps = DictDel(@, Head(o.cache).key)], msize)
    ELSE o

\* the first item of the object whose entry has the keys value and timestamp
\* and a timestamp that is not a number (kind "badts"), 0 when there is none
FirstBadTimestamp(entries) ==
    IF \E i \in DOMAIN entries : entries[i].kind = "badts"
    THEN CHOOSE i \in DOMAIN entries :
            /\ entries[i].kind = "badts"
            /\ \A j \in 1..(i - 1) : entries[j].kind # "badts"
    ELSE 0

\* what a load leaves: the maps, the exception that left _load_from_disk
\* (NoneVal when it returned) and the file
Loaded(o, raised, file) ==
    [cache |-> o.cache, timestamps |-> o.timestamps, spawned |-> 0,
     raised |-> raised, file |-> file]

\* TranslationCache._load_from_disk on a fresh object.  The except clause
\* catches json.JSONDecodeError and ValueError only, and removes the file;
\* data.items() on a value that is not an object raises AttributeError and
\* current_time - entry['timestamp'] on a timestamp that is not a number
\* raises TypeError, before the trim.
LoadFromDisk(file, t, ttl, msize) ==
    IF file.kind = "json"
    THEN IF FirstBadTimestamp(file.entries) = 0
         THEN Loaded(Trim(LoadEntries(file.entries, CacheObj(<<>>, EmptyDict), t, ttl),
                          msize), NoneVal, file)
         ELSE Loaded(LoadEntries(SubSeq(file.entries, 1,
                                        FirstBadTimestamp(file.entries) - 1),
                                 CacheObj(<<>>, EmptyDict), t, ttl),
                     "TypeError", file)
    ELSE IF file.kind = "invalid"
    THEN Loaded(CacheObj(<<>>, EmptyDict), NoneVal, AbsentFile)
    ELSE IF file.kind = "nonobject"
    THEN Loaded(CacheObj(<<>>, EmptyDict), "AttributeError", file)
    ELSE Loaded(CacheObj(<<>>, EmptyDict), NoneVal, file)

\* the snapshot the save thread takes under the lock
Snapshot(c, ts, t) ==
    [i \in 1..Len(c) |-> [key |-> c[i].key, kind |-> "dict", value |-> c[i].value,
                          timestamp |-> DictGet(ts, c[i].key, t)]]

\* threading.Thread(target=save).start()
RECURSIVE Spawn(_, _)
Spawn(threads, n) ==
    IF n = 0 THEN threads
    ELSE Spawn(Append(threads, [pc |-> "start", data |-> <<>>]), n - 1)

(***************************************************************************)
(* What an observer of the cache records: the last call (op, key, value,   *)
(* ret), the time of the call (at), the age the entry of the key had when  *)
(* a get was called (age, -1 when it was not resident), the keys used so   *)
(* far, least recently used first (used), and whether every call so far    *)
(* was a set or a successful get (plain).                                  *)
(***************************************************************************)
KeysInOrder(c) == [i \in 1..Len(c) |-> c[i].key]

LastN(q, n) == SubSeq(q, Len(q) - n + 1, Len(q))

\* the keys used, after a use of k
Use(u, k) == Append(SelectSeq(u, LAMBDA x : x # k), k)

\* now - storedAt of a key as get computes it, -1 for a key that is not resident
AgeOf(o, key, t) ==
    IF key \in CacheKeys(o.cache) THEN t - DictGet(o.timestamps, key, 0) ELSE -1

\* the constructor has run; ret is the exception that left it, if any
HistoryInit(l, t) ==
    [op |-> "init", key |-> NoneVal, value |-> NoneVal, ret |-> l.raised, at |-> t,
     age |-> -1, used |-> KeysInOrder(l.cache), plain |-> TRUE]

HistoryGet(h, o, key, t, ttl) ==
    [op |-> "get", key |-> key, value |-> NoneVal, ret |-> GetResult(o, key, t, ttl),
     at |-> t, age |-> AgeOf(o, key, t),
     used |-> IF GetResult(o, key, t, ttl) # NoneVal THEN Use(h.used, key) ELSE h.used,
     plain |-> h.plain /\ (key \in CacheKeys(o.cache) => ~Expired(o, key, t, ttl))]

\* ret is the key the set evicted
HistorySet(h, o, o1, key, value, t) ==
    [op |-> "set", key |-> key, value |-> value,
     ret |-> IF key \notin CacheKeys(o.cache) /\ o.cache # <<>>
                /\ Head(o.cache).key \notin CacheKeys(o1.cache)
             THEN Head(o.cache).key ELSE NoneVal,
     at |-> t, age |-> -1, used |-> Use(h.used, key), plain |-> h.plain]

HistoryClear(h, t) ==
    [op |-> "clear", key |-> NoneVal, value |-> NoneVal, ret |-> NoneVal, at |-> t,
     age |-> -1, used |-> h.used, plain |-> FALSE]

(***************************************************************************)
(* TranslationService                                                      *)
(***************************************************************************)
\* the attribute preferred_provider was never assigned (_init_impl returned early)
Unset == "<unset>"

\* not text.strip()
BlankOnlyEmpty(text) == text = ""

Blank(text) == text \in {"", " "}

\* what a backend returns for a text when its call succeeds
BackendTranslate(kind, text) == kind \o "(" \o text \o ")"

\* hashlib.md5(text.encode()).hexdigest()
Md5(text) == "md5(" \o text \o ")"

\* TranslationService._get_cache_key
GetCacheKey(text) == IF Len(text) > KeyHashThreshold THEN Md5(text) ELSE text

ZeroMetrics ==
    [deepl_requests |-> 0, deepl_errors |-> 0, google_requests |-> 0,
     google_errors |-> 0, cache_hits |-> 0, total_requests |-> 0]

\* the outcomes of the backend calls made for one text: the preferred backend's
\* and the fallback's, each "ok" or "raise"
Outcomes == [p : {"ok", "raise"}, f : {"ok", "raise"}]

Svc(im, pp, fb, ec) == [impl |-> im, pp |-> pp, fb |-> fb, ec |-> ec]

\* a fallback part that never calls the fallback backend
TryFallbackSkipped(text, m, svc, out, calls) ==
    [result |-> text, metrics |-> m, calls |-> calls, raised |-> FALSE]

\* a fallback part that returns nothing when no backend translated the text
TryFallbackReturnsNothing(text, m, svc, out, calls) ==
    IF svc.fb
    THEN LET m1 == [m EXCEPT !.google_requests = @ + 1]
         IN  IF out.f = "ok"
             THEN [result |-> BackendTranslate("google", text), metrics |-> m1,
                   calls |-> calls + 1, raised |-> FALSE]
             ELSE [result |-> "",
                   metrics |-> [m1 EXCEPT !.google_errors = @ + 1],
                   calls |-> calls + 1, raised |-> FALSE]
    ELSE [result |-> "", metrics |-> m, calls |-> calls, raised |-> FALSE]

\* the fallback part of _translate_with_fallback, entered with metrics m and
\* calls backend calls already made
TryFallback(text, m, svc, out, calls) ==
    IF svc.fb
    THEN LET m1 == [m EXCEPT !.google_requests = @ + 1]
         IN  IF out.f = "ok"
             THEN [result |-> BackendTranslate("google", text), metrics |-> m1,
                   calls |-> calls + 1, raised |-> FALSE]
             ELSE [result |-> text,
                   metrics |-> [m1 EXCEPT !.google_errors = @ + 1],
                   calls |-> calls + 1, raised |-> FALSE]
    ELSE [result |-> text, metrics |-> m, calls |-> calls, raised |-> FALSE]

\* TranslationService._translate_with_fallback
TranslateWithFallback(text, m, svc, out) ==
    IF Blank(text)
    THEN [result |-> text, metrics |-> m, calls |-> 0, raised |-> FALSE]
    ELSE
    LET m0 == [m EXCEPT !.total_requests = @ + 1]
    IN  IF svc.impl = "none" THEN TryFallback(text, m0, svc, out, 0)
        ELSE IF svc.pp = Unset
        THEN \* AttributeError in the try, and again in its except clause
             [result |-> text, metrics |-> m0, calls |-> 0, raised |-> TRUE]
        ELSE IF svc.pp = "deepl"
        THEN LET m1 == [m0 EXCEPT !.deepl_requests = @ + 1]
             IN  IF out.p = "ok"
                 THEN [result |-> BackendTranslate(svc.impl, text), metrics |-> m1,
                       calls |-> 1, raised |-> FALSE]
                 ELSE TryFallback(text, [m1 EXCEPT !.deepl_errors = @ + 1], svc, out, 1)
        ELSE IF svc.pp = "google"
        THEN LET m1 == [m0 EXCEPT !.google_requests = @ + 1]
             IN  IF out.p = "ok"
                 THEN [result |-> BackendTranslate(svc.impl, text), metrics |-> m1,
                       calls |-> 1, raised |-> FALSE]
                 ELSE TryFallback(text, [m1 EXCEPT !.google_errors = @ + 1], svc, out, 1)
        ELSE IF svc.pp = "mock"
        THEN IF out.p = "ok"
             THEN [result |-> BackendTranslate(svc.impl, text), metrics |-> m0,
                   calls |-> 1, raised |-> FALSE]
             ELSE TryFallback(text, m0, svc, out, 1)
        ELSE TryFallback(text, m0, svc, out, 0)

\* the first loop of translate_batch from index i: cache lookups; a result of
\* NoneVal is the placeholder of an uncached text
RECURSIVE BatchLookup(_, _, _, _, _, _, _)
BatchLookup(texts, i, o, results, svc, t, ttl) ==
    IF i > Len(texts) THEN [o |-> o, results |-> results]
    ELSE IF Blank(texts[i])
    THEN BatchLookup(texts, i + 1, o, Append(results, texts[i]), svc, t, ttl)
    ELSE IF svc.ec
    THEN BatchLookup(texts, i + 1, GetState(o, GetCacheKey(texts[i]), t, ttl),
                     Append(results, GetResult(o, GetCacheKey(texts[i]), t, ttl)),
                     svc, t, ttl)
    ELSE BatchLookup(texts, i + 1, o, Append(results, NoneVal), svc, t, ttl)

CacheResultAlways(o, svc, text, translated, t, msize) ==
    IF svc.ec
    THEN SetState(o, GetCacheKey(text), translated, t, msize)
    ELSE o

\* translate_batch: the result is cached unless it is the text itself
CacheResult(o, svc, text, translated, t, msize) ==
    IF svc.ec /\ translated # text
    THEN SetState(o, GetCacheKey(text), translated, t, msize)
    ELSE o

\* _translate_batch_api followed by the second loop of translate_batch, merged
\* index by index: the backend calls touch only the metrics and the cache.set
\* calls only the cache, so the order between the two loops is not observable.
\* outs[i] gives the outcomes of the backend calls for texts[i]; calls[i] counts them.
RECURSIVE BatchFill(_, _, _, _, _, _, _, _, _, _)
BatchFill(texts, i, o, m, results, calls, svc, outs, t, msize) ==
    IF i > Len(texts)
    THEN [results |-> results, o |-> o, metrics |-> m, calls |-> calls, raised |-> FALSE]
    ELSE IF results[i] # NoneVal
    THEN BatchFill(texts, i + 1, o, m, results, calls, svc, outs, t, msize)
    ELSE LET r  == TranslateWithFallback(texts[i], m, svc, outs[i])
             o1 == CacheResult(o, svc, texts[i], r.result, t, msize)
         IN  IF r.raised
             THEN [results |-> results, o |-> o, metrics |-> r.metrics,
                   calls |-> calls, raised |-> TRUE]
             ELSE BatchFill(texts, i + 1, o1, r.metrics,
                            [results EXCEPT ![i] = r.result],
                            [calls EXCEPT ![i] = r.calls], svc, outs, t, msize)

\* TranslationService.translate_batch
TranslateBatch(texts, o, m, svc, outs, t, ttl, msize) ==
    IF texts = <<>> \/ svc.impl = "none"
    THEN [results |-> texts, o |-> o, metrics |-> m,
          calls |-> [i \in 1..Len(texts) |-> 0], raised |-> FALSE]
    ELSE LET look == BatchLookup(texts, 1, o, <<>>, svc, t, ttl)
         IN  BatchFill(texts, 1, look.o, m, look.results,
                       [i \in 1..Len(texts) |-> 0], svc, outs, t, msize)

\* the languages the service is constructed with
SourceLang == "en"

TargetLang == "es"

\* detect(text): the language a text is in
DetectLang(text) == IF text = "b" THEN TargetLang ELSE SourceLang

\* TranslationService._detect_language; on is FALSE when auto_detect_lang is
\* off or detect raises
DetectLanguage(text, on) == IF on THEN DetectLang(text) ELSE NoneVal

\* TranslationService.translate; det is what _detect_language(text) returns
\* and out the outcomes of the backend calls.  path names the return taken.
Translate(text, det, o, m, svc, out, t, ttl, msize) ==
    IF Blank(text) \/ svc.impl = "none"
    THEN [result |-> text, o |-> o, metrics |-> m, calls |-> 0, raised |-> FALSE,
          path |-> "skip"]
    ELSE IF det # NoneVal /\ det = TargetLang
    THEN [result |-> text, o |-> o, metrics |-> m, calls |-> 0, raised |-> FALSE,
          path |-> "detected"]
    ELSE IF svc.ec /\ GetResult(o, GetCacheKey(text), t, ttl) # NoneVal
    THEN [result |-> GetResult(o, GetCacheKey(text), t, ttl),
          o |-> GetState(o, GetCacheKey(text), t, ttl),
          metrics |-> [m EXCEPT !.cache_hits = @ + 1],
          calls |-> 0, raised |-> FALSE, path |-> "hit"]
    ELSE LET o1 == IF svc.ec THEN GetState(o, GetCacheKey(text), t, ttl) ELSE o
             b  == TranslateBatch(<<text>>, o1, m, svc, <<out>>, t, ttl, msize)
         IN  [result |-> IF b.raised THEN NoneVal ELSE b.results[1], o |-> b.o,
              metrics |-> b.metrics, calls |-> b.calls[1], raised |-> b.raised,
              path |-> "backend"]

\* translate(texts[i]) for i = 1, 2, ... in turn, each call on the object the
\* one before left: the values returned (NoneVal for a call that raised)
RECURSIVE TranslateEach(_, _, _, _, _, _, _, _, _, _, _)
TranslateEach(texts, i, o, m, svc, dets, outs, t, ttl, msize, acc) ==
    IF i > Len(texts) THEN acc
    ELSE LET r == Translate(texts[i], dets[i], o, m, svc, outs[i], t, ttl, msize)
         IN  TranslateEach(texts, i + 1, r.o, r.metrics, svc, dets, outs, t, ttl,
                           msize, Append(acc, r.result))

(***************************************************************************)
(* The objects as their constructors leave them                            *)
(***************************************************************************)
\* no call has been made on the service
NoCall ==
    [op |-> "init", texts |-> <<>>, results |-> <<>>, raised |-> FALSE,
     calls |-> <<>>, before |-> ZeroMetrics, cached |-> <<>>, det |-> <<>>,
     outs |-> <<>>, each |-> <<>>, path |-> "none"]

\* no thread calls get and set on the cache concurrently
NoClients == c_threads = <<>>

\* TranslationService.__init__ apart from the cache it creates
ServiceInit(im, pp, fb, ec) ==
    /\ impl = im
    /\ preferred_provider = pp
    /\ fallback_impl = fb
    /\ enable_cache = ec
    /\ quality_metrics = ZeroMetrics
    /\ svc_op = NoCall

\* TranslationCache.__init__ on a given file at a given time
CacheInit(file, t, ttl, msize) ==
    /\ maxsize = msize
    /\ ttl_seconds = ttl
    /\ now = t
    /\ cache_file = LoadFromDisk(file, t, ttl, msize).file
    /\ cache = LoadFromDisk(file, t, ttl, msize).cache
    /\ timestamps = LoadFromDisk(file, t, ttl, msize).timestamps
    /\ save_threads = <<>>
    /\ cache_op = HistoryInit(LoadFromDisk(file, t, ttl, msize), t)
    /\ lock = 0

\* DeepgramTranscriber.__init__ apart from the translator it creates; nothing
\* has run yet and the connection will emit msgs transcripts
TranscriberInit(qmax, msgs) ==
    /\ is_recording = FALSE
    /\ translation_queue = <<>>
    /\ queue_maxsize = qmax
    /\ unfinished_tasks = 0
    /\ transcription_count = 0
    /\ bytes_sent = 0
    /\ last_audio_time = 0
    /\ last_transcript = ""
    /\ last_translation = ""
    /\ m_pc = "idle"
    /\ audio = "unopened"
    /\ conn = "none"
    /\ close_sent = 0
    /\ w_pc = "unstarted"
    /\ batch_items = <<>>
    /\ w_translations = <<>>
    /\ w_i = 0
    /\ l_pc = "unstarted"
    /\ l_event = NoEvent
    /\ k_pc = "unstarted"
    /\ k_wake = 0
    /\ wire = NoWire
    /\ msgs_left = msgs
    /\ stamp = 0
    /\ events = <<>>
    /\ cb_count = EmptyDict
    /\ asked = EmptyDict
    /\ accepted = {}
    /\ dropped = {}
    /\ late = {}
    /\ stop_requested = FALSE

sessionVars == <<is_recording, queueVars, statVars, mainVars, workerVars,
                 listenerVars, keepaliveVars, envVars, histVars>>

(***************************************************************************)
(* The cache on its own: get, set and clear called by any thread, each     *)
(* under the cache's lock, while time passes.                              *)
(***************************************************************************)
CacheKeySet == {"k1", "k2", "k3"}

CacheValueSet == {"v1", "v2"}

Entry(k, kind, v, ts) == [key |-> k, kind |-> kind, value |-> v, timestamp |-> ts]

\* persisted files a cache may be constructed on, at time TtlBound: none; three
\* fresh entries (more than maxsize); a fresh, a legacy and an expired entry
InitFiles ==
    { AbsentFile,
      JsonFile(<<Entry("k1", "dict", "v1", TtlBound), Entry("k2", "dict", "v1", TtlBound),
                 Entry("k3", "dict", "v2", TtlBound)>>),
      JsonFile(<<Entry("k3", "dict", "v1", TtlBound), Entry("k2", "str", "v2", 0),
                 Entry("k1", "dict", "v1", 0)>>) }

InitCache ==
    /\ \E file \in InitFiles, msize \in 1..MaxCacheSize :
          CacheInit(file, TtlBound, TtlBound, msize)
    /\ ServiceInit("none", Unset, FALSE, FALSE)
    /\ NoClients
    /\ TranscriberInit(QueueMaxsize, 0)

\* cache.get(key)
CacheGetCall(key) ==
    LET o == CacheObj(cache, timestamps)
    IN  /\ cache' = GetState(o, key, now, ttl_seconds).cache
        /\ timestamps' = GetState(o, key, now, ttl_seconds).timestamps
        /\ cache_op' = HistoryGet(cache_op, o, key, now, ttl_seconds)
        /\ UNCHANGED <<maxsize, ttl_seconds, cache_file, save_threads, lock, c_threads, now,
                       serviceVars, sessionVars>>

\* cache.set(key, value)
CacheSetCall(key, value) ==
    LET o  == CacheObj(cache, timestamps)
        o1 == SetState(o, key, value, now, maxsize)
    IN  /\ cache' = o1.cache
        /\ timestamps' = o1.timestamps
        /\ save_threads' = Spawn(save_threads, o1.spawned)
        /\ cache_op' = HistorySet(cache_op, o, o1, key, value, now)
        /\ UNCHANGED <<maxsize, ttl_seconds, cache_file, lock, c_threads, now,
                       serviceVars, sessionVars>>

\* cache.clear()
CacheClearCall ==
    /\ cache' = <<>>
    /\ timestamps' = EmptyDict
    /\ cache_file' = AbsentFile
    /\ cache_op' = HistoryClear(cache_op, now)
    /\ UNCHANGED <<maxsize, ttl_seconds, save_threads, lock, c_threads, now,
                   serviceVars, sessionVars>>

\* cache._save_to_disk() called directly: starts a save thread
SaveToDisk ==
    /\ Len(save_threads) < MaxSaves
    /\ save_threads' = Spawn(save_threads, 1)
    /\ UNCHANGED <<cache, timestamps, maxsize, ttl_seconds, cache_file, cache_op, lock, c_threads,
                   now,
                   serviceVars, sessionVars>>

\* save(): the snapshot of the map taken under the lock
SaveSnapshot(i) ==
    /\ save_threads[i].pc = "start"
    /\ save_threads' = [save_threads EXCEPT
                           ![i] = [pc |-> "write",
                                   data |-> Snapshot(cache, timestamps, now)]]
    /\ UNCHANGED <<cache, timestamps, maxsize, ttl_seconds, cache_file, cache_op, lock, c_threads,
                   now,
                   serviceVars, sessionVars>>

\* save(): json.dump of the snapshot to the file; the thread ends
SaveWrite(i) ==
    /\ save_threads[i].pc = "write"
    /\ cache_file' = JsonFile(save_threads[i].data)
    /\ save_threads' = [j \in 1..(Len(save_threads) - 1) |->
                           IF j < i THEN save_threads[j] ELSE save_threads[j + 1]]
    /\ UNCHANGED <<cache, timestamps, maxsize, ttl_seconds, cache_op, lock, c_threads,
                   now, serviceVars, sessionVars>>

\* time passes
Tick ==
    /\ now < MaxTime
    /\ now' = now + 1
    /\ UNCHANGED <<cache, timestamps, maxsize, ttl_seconds, cache_file, save_threads,
                   cache_op, lock, c_threads, serviceVars, sessionVars>>

NextCache ==
    \/ \E key \in CacheKeySet : CacheGetCall(key)
    \/ \E key \in CacheKeySet, value \in CacheValueSet : CacheSetCall(key, value)
    \/ CacheClearCall
    \/ Tick

SpecCache == InitCache /\ [][NextCache]_vars

\* C10: with maxsize >= 1, after any sequence of get, set and clear calls (and
\* after the load of the constructor) the cache holds at most maxsize entries,
\* in the value map and in the timestamp map.
C10_SizeBounded ==
    maxsize >= 1 =>
        /\ Len(cache) <= maxsize
        /\ Cardinality(DOMAIN timestamps) <= maxsize

\* a set of a new key into a full cache has just evicted the oldest entry
C10_Witness ==
    /\ cache_op.op = "set"
    /\ cache_op.ret # NoneVal
    /\ Len(cache) = maxsize
    /\ maxsize = MaxCacheSize

(***************************************************************************)
(* DeepgramTranscriber: the session                                        *)
(***************************************************************************)
\* transcripts the connection may emit
Texts == {"a"}

\* TranscriptionEvent
Event(transcript, translation, is_final, timestamp) ==
    [transcript |-> transcript, translation |-> translation, is_final |-> is_final,
     timestamp |-> timestamp]

\* self.on_transcription(event): the consumer's log keeps the first MaxLog events
Deliver(log, e) == IF Len(log) < MaxLog THEN Append(log, e) ELSE log

\* a counter of the metrics, kept within the model's range
Capped(m) == [f \in DOMAIN m |-> Min(m[f], MaxCount)]

Item(text, timestamp) == [text |-> text, timestamp |-> timestamp]

BatchTexts(items) == [i \in 1..Len(items) |-> items[i].text]

\* ---------------------------------------------------------------- stop()
\* DeepgramTranscriber.stop, called from another thread (once)
Stop ==
    /\ ~stop_requested
    /\ m_pc \notin {"idle", "returned"}
    /\ is_recording' = FALSE
    /\ stop_requested' = TRUE
    /\ UNCHANGED <<cacheVars, serviceVars, queueVars, statVars, mainVars, workerVars,
                   listenerVars, keepaliveVars, envVars, events, cb_count, asked,
                   accepted, dropped, late>>

\* ------------------------------------------------------- the worker thread
\* while self.is_recording or ...: the first operand of the loop condition
WorkerCond ==
    /\ w_pc = "cond"
    /\ w_pc' = IF is_recording THEN "collect" ELSE "cond_q"
    /\ UNCHANGED <<cacheVars, serviceVars, is_recording, queueVars, statVars, mainVars,
                   batch_items, w_translations, w_i, listenerVars, keepaliveVars,
                   envVars, histVars>>

\* ... or not self.translation_queue.empty() or batch_items
WorkerCondQueue ==
    /\ w_pc = "cond_q"
    /\ w_pc' = IF translation_queue # <<>> \/ batch_items # <<>>
               THEN "collect" ELSE "exit"
    /\ UNCHANGED <<cacheVars, serviceVars, is_recording, queueVars, statVars, mainVars,
                   batch_items, w_translations, w_i, listenerVars, keepaliveVars,
                   envVars, histVars>>

WorkerCollectNewestFirst ==
    /\ w_pc = "collect"
    /\ IF Len(batch_items) < BatchSize /\ translation_queue # <<>>
       THEN /\ batch_items' = Append(batch_items,
                                     translation_queue[Len(translation_queue)])
            /\ translation_queue' = SubSeq(translation_queue, 1,
                                           Len(translation_queue) - 1)
            /\ w_pc' = "collect"
       ELSE /\ w_pc' = IF batch_items # <<>> THEN "translate" ELSE "sleep"
            /\ UNCHANGED <<batch_items, translation_queue>>
    /\ UNCHANGED <<cacheVars, serviceVars, is_recording, queue_maxsize, unfinished_tasks,
                   statVars, mainVars, w_translations, w_i, listenerVars,
                   keepaliveVars, envVars, histVars>>

\* the inner while: one get_nowait, or the end of the collection
WorkerCollect ==
    /\ w_pc = "collect"
    /\ IF Len(batch_items) < BatchSize /\ translation_queue # <<>>
       THEN /\ batch_items' = Append(batch_items, Head(translation_queue))
            /\ translation_queue' = Tail(translation_queue)
            /\ w_pc' = "collect"
       ELSE /\ w_pc' = IF batch_items # <<>> THEN "translate" ELSE "sleep"
            /\ UNCHANGED <<batch_items, translation_queue>>
    /\ UNCHANGED <<cacheVars, serviceVars, is_recording, queue_maxsize, unfinished_tasks,
                   statVars, mainVars, w_translations, w_i, listenerVars,
                   keepaliveVars, envVars, histVars>>

\* time.sleep(0.1) of the else branch
WorkerSleep ==
    /\ w_pc = "sleep"
    /\ w_pc' = "cond"
    /\ UNCHANGED <<cacheVars, serviceVars, is_recording, queueVars, statVars, mainVars,
                   batch_items, w_translations, w_i, listenerVars, keepaliveVars,
                   envVars, histVars>>

\* asked[ts] after a translate_batch that made calls[i] backend calls for item i
RECURSIVE CountAsked(_, _, _, _)
CountAsked(a, items, calls, i) ==
    IF i > Len(items) THEN a
    ELSE CountAsked([a EXCEPT ![items[i].timestamp] = Min(@ + calls[i], 2)],
                    items, calls, i + 1)

\* _process_translation_batch up to the result loop: translate_batch(texts);
\* outs are the outcomes of the backend calls
WorkerTranslate(outs) ==
    /\ w_pc \in {"translate", "final"}
    /\ LET r == TranslateBatch(BatchTexts(batch_items), CacheObj(cache, timestamps),
                               quality_metrics,
                               Svc(impl, preferred_provider, fallback_impl, enable_cache),
                               outs, now, ttl_seconds, maxsize)
       IN  /\ cache' = r.o.cache
           /\ timestamps' = r.o.timestamps
           /\ save_threads' = Spawn(save_threads, r.o.spawned)
           /\ quality_metrics' = Capped(r.metrics)
           /\ asked' = CountAsked(asked, batch_items, r.calls, 1)
           /\ IF r.raised
              THEN /\ w_pc' = IF w_pc = "final" THEN "done" ELSE "cond"
                   /\ UNCHANGED <<w_translations, w_i>>
              ELSE /\ w_pc' = IF w_pc = "final" THEN "final_callback" ELSE "callback"
                   /\ w_translations' = r.results
                   /\ w_i' = 1
    /\ UNCHANGED <<maxsize, ttl_seconds, cache_file, cache_op, lock, c_threads, now,
                   impl, preferred_provider, fallback_impl, enable_cache, svc_op,
                   is_recording,
                   queueVars, statVars, mainVars, batch_items, listenerVars,
                   keepaliveVars, envVars, events, cb_count, accepted, dropped, late,
                   stop_requested>>

\* one iteration of the result loop of _process_translation_batch:
\* callback(text, translation, timestamp), which returns or raises; an
\* exception leaves the loop and reaches the except clause of the worker,
\* which prints and goes round the outer loop with batch_items as it is
WorkerCallback(raises) ==
    /\ w_pc \in {"callback", "final_callback"}
    /\ last_translation' = w_translations[w_i]
    /\ cb_count' = [cb_count EXCEPT ![batch_items[w_i].timestamp] = Sat(@)]
    /\ IF raises
       THEN /\ w_pc' = IF w_pc = "final_callback" THEN "done" ELSE "cond"
            /\ w_i' = 0
            /\ w_translations' = <<>>
            /\ UNCHANGED events
       ELSE /\ events' = Deliver(events, Event(batch_items[w_i].text, w_translations[w_i],
                                               TRUE, batch_items[w_i].timestamp))
            /\ UNCHANGED w_translations
            /\ IF w_i < Len(batch_items)
               THEN /\ w_i' = w_i + 1
                    /\ UNCHANGED w_pc
               ELSE /\ w_i' = 0
                    /\ w_pc' = IF w_pc = "final_callback" THEN "final_ack" ELSE "ack"
    /\ UNCHANGED <<cacheVars, serviceVars, is_recording, queueVars, transcription_count,
                   bytes_sent, last_audio_time, last_transcript, mainVars, batch_items,
                   listenerVars, keepaliveVars, envVars, asked,
                   accepted, dropped, late, stop_requested>>

\* for _ in batch_items: task_done(); batch_items = []
WorkerAck ==
    /\ w_pc \in {"ack", "final_ack"}
    /\ unfinished_tasks' = unfinished_tasks - Len(batch_items)
    /\ batch_items' = IF w_pc = "ack" THEN <<>> ELSE batch_items
    /\ w_translations' = <<>>
    /\ w_pc' = IF w_pc = "ack" THEN "cond" ELSE "done"
    /\ UNCHANGED <<cacheVars, serviceVars, is_recording, translation_queue,
                   queue_maxsize, statVars, mainVars, w_i, listenerVars, keepaliveVars,
                   envVars, histVars>>

\* the loop condition was false: "if batch_items:" after the loop, then return
WorkerExit ==
    /\ w_pc = "exit"
    /\ w_pc' = IF batch_items # <<>> THEN "final" ELSE "done"
    /\ UNCHANGED <<cacheVars, serviceVars, is_recording, queueVars, statVars, mainVars,
                   batch_items, w_translations, w_i, listenerVars, keepaliveVars,
                   envVars, histVars>>

\* ------------------------------------------------------ the listener thread
\* handler(event) for a final transcript, up to the consumer's callback:
\* counts it, remembers it and delivers the transcript-only event
HandlerFinal(text) ==
    /\ l_pc = "listening"
    /\ conn = "open"
    /\ msgs_left > 0
    /\ msgs_left' = msgs_left - 1
    /\ stamp' = stamp + 1
    /\ transcription_count' = transcription_count + 1
    /\ last_transcript' = text
    /\ events' = Deliver(events, Event(text, NoneVal, TRUE, stamp + 1))
    /\ IF impl # "none"
       THEN /\ l_pc' = "enqueue"
            /\ l_event' = Item(text, stamp + 1)
       ELSE UNCHANGED <<l_pc, l_event>>
    /\ UNCHANGED <<cacheVars, serviceVars, is_recording, queueVars, bytes_sent,
                   last_audio_time, last_translation, mainVars, workerVars,
                   keepaliveVars, cb_count, asked, accepted, dropped, late,
                   stop_requested>>

\* a put on a queue that has no maxsize
PutUnbounded ==
    /\ l_pc = "enqueue"
    /\ translation_queue' = Append(translation_queue, l_event)
    /\ unfinished_tasks' = unfinished_tasks + 1
    /\ accepted' = accepted \cup {l_event.timestamp}
    /\ late' = IF is_recording THEN late ELSE late \cup {l_event.timestamp}
    /\ cb_count' = DictSet(cb_count, l_event.timestamp, 0)
    /\ asked' = DictSet(asked, l_event.timestamp, 0)
    /\ UNCHANGED dropped
    /\ l_pc' = "listening"
    /\ l_event' = NoEvent
    /\ UNCHANGED <<cacheVars, serviceVars, is_recording, queue_maxsize, statVars,
                   mainVars, workerVars, keepaliveVars, envVars, events, stop_requested>>

\* a put that makes room by discarding the oldest queued item
PutDropOldest ==
    /\ l_pc = "enqueue"
    /\ IF Len(translation_queue) < queue_maxsize
       THEN /\ translation_queue' = Append(translation_queue, l_event)
            /\ unfinished_tasks' = unfinished_tasks + 1
            /\ UNCHANGED dropped
       ELSE /\ translation_queue' = Append(Tail(translation_queue), l_event)
            /\ dropped' = dropped \cup {Head(translation_queue).timestamp}
            /\ UNCHANGED unfinished_tasks
    /\ accepted' = accepted \cup {l_event.timestamp}
    /\ late' = IF is_recording THEN late ELSE late \cup {l_event.timestamp}
    /\ cb_count' = DictSet(cb_count, l_event.timestamp, 0)
    /\ asked' = DictSet(asked, l_event.timestamp, 0)
    /\ l_pc' = "listening"
    /\ l_event' = NoEvent
    /\ UNCHANGED <<cacheVars, serviceVars, is_recording, queue_maxsize, statVars,
                   mainVars, workerVars, keepaliveVars, envVars, events, stop_requested>>

\* handler(event) for a final transcript, the rest:
\* translation_queue.put_nowait((transcript, timestamp, handle_translation));
\* Full is caught and the item is skipped
HandlerEnqueue ==
    /\ l_pc = "enqueue"
    /\ IF Len(translation_queue) < queue_maxsize
       THEN /\ translation_queue' = Append(translation_queue, l_event)
            /\ unfinished_tasks' = unfinished_tasks + 1
            /\ accepted' = accepted \cup {l_event.timestamp}
            /\ late' = IF is_recording THEN late ELSE late \cup {l_event.timestamp}
            /\ UNCHANGED dropped
       ELSE /\ dropped' = dropped \cup {l_event.timestamp}
            /\ UNCHANGED <<translation_queue, unfinished_tasks, accepted, late>>
    /\ cb_count' = DictSet(cb_count, l_event.timestamp, 0)
    /\ asked' = DictSet(asked, l_event.timestamp, 0)
    /\ l_pc' = "listening"
    /\ l_event' = NoEvent
    /\ UNCHANGED <<cacheVars, serviceVars, is_recording, queue_maxsize, statVars,
                   mainVars, workerVars, keepaliveVars, envVars, events, stop_requested>>

\* handler(event) for an interim transcript (enable_interim)
HandlerInterim(text) ==
    /\ l_pc = "listening"
    /\ conn = "open"
    /\ msgs_left > 0
    /\ msgs_left' = msgs_left - 1
    /\ stamp' = stamp + 1
    /\ events' = Deliver(events, Event(text, NoneVal, FALSE, stamp + 1))
    /\ UNCHANGED <<cacheVars, serviceVars, is_recording, queueVars, statVars, mainVars,
                   workerVars, listenerVars, keepaliveVars, cb_count, asked, accepted,
                   dropped, late, stop_requested>>

\* the connection reports an error: the error handler prints it
ConnError ==
    /\ l_pc = "listening"
    /\ conn = "open"
    /\ conn' = "error"
    /\ UNCHANGED <<cacheVars, serviceVars, is_recording, queueVars, statVars, m_pc,
                   audio, close_sent, workerVars, listenerVars, keepaliveVars, envVars,
                   histVars>>

\* the connection closes (by the server, after an error, or because start()
\* left the with block): the close handler prints and start_listening returns
ConnClose ==
    /\ l_pc = "listening"
    /\ conn \in {"open", "error", "closed"}
    /\ conn' = "closed"
    /\ l_pc' = "done"
    /\ UNCHANGED <<cacheVars, serviceVars, is_recording, queueVars, statVars, m_pc,
                   audio, close_sent, workerVars, l_event, keepaliveVars, envVars,
                   histVars>>

\* ----------------------------------------------------- the keepalive thread
\* one round of the keepalive loop: while self.is_recording, time.sleep(5.0),
\* then silent is the outcome of current_time - self.last_audio_time > 8.0 and
\* sent that of send_media(silence_packet), whose exception ends the loop
Keepalive(silent, sent) ==
    /\ k_pc = "loop"
    /\ sent => silent /\ conn \in {"open", "error"}
    /\ k_pc' = IF ~is_recording \/ (silent /\ ~sent) THEN "done" ELSE "loop"
    /\ UNCHANGED <<k_wake, wire>>
    /\ UNCHANGED <<cacheVars, serviceVars, is_recording, queueVars, statVars, mainVars,
                   workerVars, listenerVars, envVars, histVars>>

\* ------------------------------------------------- the thread running start()
\* a start() that goes on after audio_stream.open() has failed
StartOpenGoesOn(ok) ==
    /\ m_pc = "idle"
    /\ audio' = IF ok THEN "open" ELSE "failed"
    /\ m_pc' = "start_worker"
    /\ UNCHANGED <<cacheVars, serviceVars, is_recording, queueVars, statVars, conn,
                   close_sent, workerVars, listenerVars, keepaliveVars, envVars,
                   histVars>>

\* audio_stream.open(); on failure start() prints and returns
StartOpen(ok) ==
    /\ m_pc = "idle"
    /\ IF ok THEN /\ audio' = "open"
                  /\ m_pc' = "start_worker"
       ELSE /\ audio' = "failed"
            /\ m_pc' = "returned"
    /\ UNCHANGED <<cacheVars, serviceVars, is_recording, queueVars, statVars, conn,
                   close_sent, workerVars, listenerVars, keepaliveVars, envVars,
                   histVars>>

\* self.is_recording = True; the translation worker thread is started
StartWorker ==
    /\ m_pc = "start_worker"
    /\ is_recording' = TRUE
    /\ w_pc' = "cond"
    /\ m_pc' = "connect"
    /\ UNCHANGED <<cacheVars, serviceVars, queueVars, statVars, audio, conn, close_sent,
                   batch_items, w_translations, w_i, listenerVars, keepaliveVars,
                   envVars, histVars>>

\* with self.client.listen.v1.connect(...) as connection: a failure raises
\* into the outer except clause
Connect(ok) ==
    /\ m_pc = "connect"
    /\ IF ok THEN /\ conn' = "open"
                  /\ m_pc' = "setup"
       ELSE /\ conn' = "failed"
            /\ m_pc' = "outer_finally"
    /\ UNCHANGED <<cacheVars, serviceVars, is_recording, queueVars, statVars, audio,
                   close_sent, workerVars, listenerVars, keepaliveVars, envVars,
                   histVars>>

\* the handlers are registered, the listener thread is started,
\* last_audio_time is set and the keepalive thread is started
Setup ==
    /\ m_pc = "setup"
    /\ l_pc' = "listening"
    /\ last_audio_time' = now
    /\ k_pc' = "loop"
    /\ m_pc' = "loop"
    /\ UNCHANGED <<k_wake, wire>>
    /\ UNCHANGED <<cacheVars, serviceVars, is_recording, queueVars, transcription_count,
                   bytes_sent, last_transcript, last_translation, audio, conn,
                   close_sent, workerVars, l_event, envVars, histVars>>

\* while self.is_recording: of the read loop
LoopCheck ==
    /\ m_pc = "loop"
    /\ m_pc' = IF is_recording THEN "read" ELSE "inner_finally"
    /\ UNCHANGED <<cacheVars, serviceVars, is_recording, queueVars, statVars, audio,
                   conn, close_sent, workerVars, listenerVars, keepaliveVars, envVars,
                   histVars>>

\* the body of the read loop: data = audio_stream.read(), then, if data,
\* connection.send_media(data), bytes_sent and last_audio_time updated.
\* outcome is "sent", "empty" (no data), or "raise": an exception of the read
\* or of the send, which is printed and after a pause the loop continues.
\* At most MaxFrames frames are sent.
ReadSend(outcome) ==
    /\ m_pc = "read"
    /\ outcome = "sent" => bytes_sent < MaxFrames /\ conn \in {"open", "error"}
    /\ IF outcome = "sent"
       THEN /\ bytes_sent' = bytes_sent + 1
            /\ last_audio_time' = now
       ELSE UNCHANGED <<bytes_sent, last_audio_time>>
    /\ m_pc' = "loop"
    /\ UNCHANGED <<cacheVars, serviceVars, is_recording, queueVars, transcription_count,
                   last_transcript, last_translation, audio, conn, close_sent,
                   workerVars, listenerVars, keepaliveVars, envVars, histVars>>

\* KeyboardInterrupt in the read loop (Ctrl+C): the except clause prints
Interrupt ==
    /\ m_pc \in {"loop", "read"}
    /\ ~stop_requested
    /\ stop_requested' = TRUE
    /\ m_pc' = "inner_finally"
    /\ UNCHANGED <<cacheVars, serviceVars, is_recording, queueVars, statVars, audio,
                   conn, close_sent, workerVars, listenerVars, keepaliveVars, envVars,
                   events, cb_count, asked, accepted, dropped, late>>

\* inner finally: self.is_recording = False
InnerFinally ==
    /\ m_pc = "inner_finally"
    /\ is_recording' = FALSE
    /\ m_pc' = "close_stream"
    /\ UNCHANGED <<cacheVars, serviceVars, queueVars, statVars, audio, conn, close_sent,
                   workerVars, listenerVars, keepaliveVars, envVars, histVars>>

\* connection.send_control(CloseStream); an exception is swallowed
CloseStream ==
    /\ m_pc = "close_stream"
    /\ close_sent' = IF conn = "open" THEN close_sent + 1 ELSE close_sent
    /\ m_pc' = "join_listener"
    /\ UNCHANGED <<cacheVars, serviceVars, is_recording, queueVars, statVars, audio,
                   conn, workerVars, listenerVars, keepaliveVars, envVars, histVars>>

\* listener_thread.join(timeout=2.0) returns, the listener finished or not
JoinListener ==
    /\ m_pc = "join_listener"
    /\ m_pc' = "exit_with"
    /\ UNCHANGED <<cacheVars, serviceVars, is_recording, queueVars, statVars, audio,
                   conn, close_sent, workerVars, listenerVars, keepaliveVars, envVars,
                   histVars>>

\* the with block is left: the connection is closed
ExitWith ==
    /\ m_pc = "exit_with"
    /\ conn' = "closed"
    /\ m_pc' = "outer_finally"
    /\ UNCHANGED <<cacheVars, serviceVars, is_recording, queueVars, statVars, audio,
                   close_sent, workerVars, listenerVars, keepaliveVars, envVars,
                   histVars>>

\* outer finally: self.is_recording = False
OuterFinally ==
    /\ m_pc = "outer_finally"
    /\ is_recording' = FALSE
    /\ m_pc' = "join_worker"
    /\ UNCHANGED <<cacheVars, serviceVars, queueVars, statVars, audio, conn, close_sent,
                   workerVars, listenerVars, keepaliveVars, envVars, histVars>>

\* self.translation_thread.join(timeout=5.0) returns, the worker finished or not
JoinWorker ==
    /\ m_pc = "join_worker"
    /\ m_pc' = "close_audio"
    /\ UNCHANGED <<cacheVars, serviceVars, is_recording, queueVars, statVars, audio,
                   conn, close_sent, workerVars, listenerVars, keepaliveVars, envVars,
                   histVars>>

CloseAudioSkipped ==
    /\ m_pc = "close_audio"
    /\ m_pc' = "summary"
    /\ UNCHANGED <<cacheVars, serviceVars, is_recording, queueVars, statVars, audio, conn,
                   close_sent, workerVars, listenerVars, keepaliveVars, envVars,
                   histVars>>

\* audio_stream.close()
CloseAudio ==
    /\ m_pc = "close_audio"
    /\ audio' = "closed"
    /\ m_pc' = "summary"
    /\ UNCHANGED <<cacheVars, serviceVars, is_recording, queueVars, statVars, conn,
                   close_sent, workerVars, listenerVars, keepaliveVars, envVars,
                   histVars>>

\* self._print_summary(); start() returns
Summary ==
    /\ m_pc = "summary"
    /\ m_pc' = "returned"
    /\ UNCHANGED <<cacheVars, serviceVars, is_recording, queueVars, statVars, audio,
                   conn, close_sent, workerVars, listenerVars, keepaliveVars, envVars,
                   histVars>>

\* C11: as long as every call was a set or a successful get, the resident
\* keys are exactly the min(maxsize, number of distinct keys used) most
\* recently used keys, held in order of use; after a set, the entry of its key
\* is the most recently used one and holds the value of the set, and the key
\* a set evicted is no longer resident.
C11_StrictLru ==
    /\ cache_op.plain =>
          KeysInOrder(cache) =
             LastN(cache_op.used, Min(maxsize, Len(cache_op.used)))
    /\ cache_op.op = "set" =>
          /\ cache # <<>>
          /\ cache[Len(cache)] = [key |-> cache_op.key, value |-> cache_op.value]
          /\ cache_op.ret \notin CacheKeys(cache)

\* after sets and successful gets only, a set of a new key on a full cache
\* has evicted the least recently used of the resident keys
C11_Witness ==
    /\ cache_op.plain
    /\ cache_op.op = "set"
    /\ cache_op.ret # NoneVal
    /\ Len(cache) = maxsize
    /\ Len(cache_op.used) > maxsize
    /\ cache_op.ret = cache_op.used[Len(cache_op.used) - maxsize]

\* C12: a get of a resident key returns the stored value if and only if
\* the age now - storedAt of the entry is less than ttl; when the age is ttl
\* or more the get returns a miss and the entry is gone from both maps.
C12_GetIffFresh ==
    cache_op.op = "get" /\ cache_op.age >= 0 =>
       /\ cache_op.ret # NoneVal <=> cache_op.age < ttl_seconds
       /\ cache_op.ret # NoneVal =>
             /\ cache_op.key \in CacheKeys(cache)
             /\ cache_op.ret = CacheValue(cache, cache_op.key)
       /\ cache_op.age >= ttl_seconds =>
             /\ cache_op.key \notin CacheKeys(cache)
             /\ cache_op.key \notin DOMAIN timestamps

\* C13 as stated: in every state every resident key has now - storedAt < ttl.
C13_NoStaleResident ==
    \A k \in CacheKeys(cache) : now - timestamps[k] < ttl_seconds

\* C13, amended: the two maps hold the same keys, no entry is stored in the
\* future, every entry the constructor has loaded is fresh at that moment
\* (now - storedAt < ttl), a set stores its entry with the time of the call,
\* and a get never returns an entry whose age exceeds ttl.  An entry whose
\* age has reached ttl stays resident until a call removes it.
C13_FreshWhenStored ==
    /\ DOMAIN timestamps = CacheKeys(cache)
    /\ \A k \in CacheKeys(cache) : timestamps[k] <= now
    /\ cache_op.op = "init" /\ cache_op.at = now =>
          \A k \in CacheKeys(cache) : now - timestamps[k] < ttl_seconds
    /\ cache_op.op = "set" => timestamps[cache_op.key] = cache_op.at
    /\ cache_op.op = "get" /\ cache_op.ret # NoneVal =>
          cache_op.age <= ttl_seconds

\* time has advanced after a set and the entry it stored is still resident
\* although its age has reached ttl
C13_Witness ==
    /\ cache_op.op = "set"
    /\ cache_op.key \in CacheKeys(cache)
    /\ now - timestamps[cache_op.key] >= ttl_seconds

(***************************************************************************)
(* The cache and its file: a cache is constructed on a file of any         *)
(* content; get, set and clear are called, _save_to_disk starts save       *)
(* threads that snapshot the map under the lock and write the file         *)
(* without it, and a new cache is constructed on the file the last one     *)
(* left.  clear is two steps: the maps are cleared under the lock, then    *)
(* the file is removed, still under the lock.                              *)
(***************************************************************************)
\* files with content that is not what a save writes: empty, not JSON, JSON
\* that is no object, an object with an entry whose timestamp is no number
\* after a well-formed one, an object with an entry of another shape
MalformedFiles ==
    { EmptyFile, InvalidFile, NonObjectFile,
      JsonFile(<<Entry("k1", "dict", "v1", TtlBound), Entry("k2", "badts", "v2", 0)>>),
      JsonFile(<<Entry("k1", "other", "v1", 0), Entry("k2", "dict", "v2", TtlBound)>>) }

\* the keys get and set are called with
PersistKeys == {"k1", "k2"}

\* the values set is called with
PersistValues == {"v2"}

\* the constructor raised: there is no cache object to call
ConstructorFailed == cache_op.op = "init" /\ cache_op.ret # NoneVal

InitPersist ==
    /\ \E file \in InitFiles \cup MalformedFiles, msize \in 1..MaxCacheSize :
          CacheInit(file, TtlBound, TtlBound, msize)
    /\ ServiceInit("none", Unset, FALSE, FALSE)
    /\ NoClients
    /\ TranscriberInit(QueueMaxsize, 0)

\* clear(): the lock is taken and both maps are cleared
ClearBegin ==
    /\ lock = 0
    /\ lock' = 1
    /\ cache' = <<>>
    /\ timestamps' = EmptyDict
    /\ UNCHANGED <<maxsize, ttl_seconds, cache_file, save_threads, cache_op, c_threads,
                   now, serviceVars, sessionVars>>

\* clear(): os.path.exists and os.remove inside the with block, then the lock
\* is released and clear returns
ClearRemove ==
    /\ lock = 1
    /\ lock' = 0
    /\ cache_file' = AbsentFile
    /\ cache_op' = HistoryClear(cache_op, now)
    /\ UNCHANGED <<cache, timestamps, maxsize, ttl_seconds, save_threads, c_threads,
                   now, serviceVars, sessionVars>>

HistorySave(h, t) ==
    [op |-> "save", key |-> NoneVal, value |-> NoneVal, ret |-> NoneVal, at |-> t,
     age |-> -1, used |-> h.used, plain |-> h.plain]

\* _save_to_disk() called on the cache: the save thread is started and the call
\* returns
SaveCall ==
    /\ Len(save_threads) < MaxSaves
    /\ save_threads' = Spawn(save_threads, 1)
    /\ cache_op' = HistorySave(cache_op, now)
    /\ UNCHANGED <<cache, timestamps, maxsize, ttl_seconds, cache_file, lock, c_threads,
                   now, serviceVars, sessionVars>>

\* TranslationCache(maxsize=msize, cache_file=..., ttl_seconds=...) on the
\* file as it is now, once every save thread has ended
Construct(msize) ==
    LET l == LoadFromDisk(cache_file, now, ttl_seconds, msize)
    IN  /\ lock = 0
        /\ save_threads = <<>>
        /\ maxsize' = msize
        /\ cache' = l.cache
        /\ timestamps' = l.timestamps
        /\ cache_file' = l.file
        /\ cache_op' = HistoryInit(l, now)
        /\ UNCHANGED <<ttl_seconds, save_threads, lock, c_threads, now, serviceVars,
                       sessionVars>>

NextPersist ==
    \/ /\ ~ConstructorFailed
       /\ \/ lock = 0 /\ \E key \in PersistKeys : CacheGetCall(key)
          \/ lock = 0 /\ \E key \in PersistKeys, value \in PersistValues :
                            CacheSetCall(key, value)
          \/ ClearBegin
          \/ ClearRemove
          \/ SaveCall
          \/ lock = 0 /\ \E i \in DOMAIN save_threads : SaveSnapshot(i)
          \/ \E i \in DOMAIN save_threads : SaveWrite(i)
    \/ \E msize \in 1..MaxCacheSize : Construct(msize)
    \/ Tick

SpecPersist == InitPersist /\ [][NextPersist]_vars

\* the entries of a file that a load accepts at time t: well-formed and
\* younger than ttl, or legacy strings
Loadable(file, t, ttl) ==
    SelectSeq(file.entries,
              LAMBDA e : \/ e.kind = "dict" /\ t - e.timestamp < ttl
                         \/ e.kind = "str")

\* C22: constructing a TranslationCache never fails whatever the file holds
\* (absent, empty, not JSON, JSON that is no object, an object with an entry
\* whose timestamp is no number): no exception reaches the caller, and the
\* cache starts empty or with well-formed unexpired entries only.
C22_ConstructionNeverFails ==
    cache_op.op = "init"
       => /\ cache_op.ret = NoneVal
          /\ DOMAIN timestamps = CacheKeys(cache)
          /\ \A k \in CacheKeys(cache) :
                \E i \in DOMAIN Loadable(cache_file, cache_op.at, ttl_seconds) :
                   /\ Loadable(cache_file, cache_op.at, ttl_seconds)[i].key = k
                   /\ Loadable(cache_file, cache_op.at, ttl_seconds)[i].value
                         = CacheValue(cache, k)

\* the file is one a save wrote: an object whose entries all have a value and
\* a numeric timestamp
SavedFile(file) ==
    file.kind = "json" /\ \A i \in DOMAIN file.entries : file.entries[i].kind = "dict"

\* C23: a cache constructed on a file a completed save wrote, with the same
\* ttl, holds the entries of the file that are younger than ttl at the load,
\* in the saved order, each with its saved value and its saved timestamp, and
\* get returns that value; entries with now - timestamp >= ttl are not
\* loaded; of more than maxsize loadable entries exactly the last maxsize in
\* saved order are kept.  (lock = 0: no clear is in progress on the new cache.)
C23_RoundTrip ==
    cache_op.op = "init" /\ lock = 0 /\ SavedFile(cache_file)
       => LET fresh == Loadable(cache_file, cache_op.at, ttl_seconds)
              kept  == LastN(fresh, Min(maxsize, Len(fresh)))
          IN  /\ cache_op.ret = NoneVal
              /\ Len(cache) = Len(kept)
              /\ DOMAIN timestamps = CacheKeys(cache)
              /\ \A i \in DOMAIN kept :
                    /\ cache[i] = [key |-> kept[i].key, value |-> kept[i].value]
                    /\ timestamps[kept[i].key] = kept[i].timestamp
                    /\ cache_op.at - kept[i].timestamp < ttl_seconds
                    /\ GetResult(CacheObj(cache, timestamps), kept[i].key, cache_op.at,
                                 ttl_seconds) = kept[i].value

\* a cache constructed on a file that a save wrote after a set: the entry of
\* the set is loaded and an entry that has expired since is not
C23_Witness ==
    /\ cache_op.op = "init"
    /\ SavedFile(cache_file)
    /\ \E i \in DOMAIN cache_file.entries :
          /\ cache_file.entries[i].timestamp > TtlBound
          /\ cache_file.entries[i].value \in PersistValues
          /\ cache_file.entries[i].key \in CacheKeys(cache)
    /\ \E i \in DOMAIN cache_file.entries :
          /\ cache_op.at - cache_file.entries[i].timestamp >= ttl_seconds
          /\ cache_file.entries[i].key \notin CacheKeys(cache)

\* after clear has returned, and until the next call, both maps are empty and
\* the file does not exist
C24_ClearedState ==
    cache_op.op = "clear" /\ lock = 0
       => /\ cache = <<>>
          /\ timestamps = EmptyDict
          /\ cache_file = AbsentFile

\* a get on the empty maps is a miss and leaves them empty
C24_GetMissesOnEmpty ==
    cache = <<>> /\ cache_op' # cache_op /\ cache_op'.op = "get"
       => cache_op'.ret = NoneVal /\ cache' = <<>> /\ timestamps' = timestamps

\* C24: after clear() returns the in-memory map is empty (no values and no
\* timestamps), every get is a miss until the next set, and the persisted
\* file does not exist.
C24_ClearEmptiesAndRemoves == []C24_ClearedState /\ [][C24_GetMissesOnEmpty]_vars

\* clear() has returned, no call came since, and every save thread that
\* was in flight has finished: the file is absent or holds no entries
C38_NothingOnDisk ==
    cache_op.op = "clear" /\ lock = 0 /\ save_threads = <<>>
       => cache_file = AbsentFile \/ cache_file.entries = <<>>

\* a cache constructed on the file after the clear starts empty
C38_NothingReloaded ==
    cache_op.op = "clear" /\ cache_op'.op = "init" => cache' = <<>>

\* C38: if clear() is called while a background save triggered earlier is
\* still in flight, then once that save has finished the persisted file does
\* not exist or holds no entries: cleared entries never reappear on disk nor
\* in a cache constructed afterwards on the same file.
C38_ClearedStaysCleared == []C38_NothingOnDisk /\ [][C38_NothingReloaded]_vars

\* the step of clear() that looks for the file and removes it
ClearIo == cache_op' # cache_op /\ cache_op'.op = "clear"

\* the step of a save thread that writes the file
SaveIo == Len(save_threads') < Len(save_threads)

\* a get or a set returns
GetOrSetReturns == cache_op' # cache_op /\ cache_op'.op \in {"get", "set"}

\* lock = 1 between two steps only while a thread is inside clear(): that
\* thread holds the mutex
C25_IoOutsideTheLock ==
    /\ ClearIo => lock = 0
    /\ SaveIo => lock' = lock
    /\ GetOrSetReturns => cache_file' = cache_file

\* C25: no thread performs I/O while holding the cache mutex: in get, set,
\* clear and the background save, the persisted file is read, written or
\* removed only when the cache lock is not held by that thread.
C25_NoIoUnderLock == [][C25_IoOutsideTheLock]_vars

(***************************************************************************)
(* One cache shared by threads that call set and get, each on its own      *)
(* keys.  A call runs under self._lock: a get is one step; a set is two,   *)
(* the assignment to _cache and the assignment to _timestamps, with the    *)
(* lock held in between.  Each thread records its last completed call     *)
(* (for a get: the age the entry had, -1 when it was not resident, and in  *)
(* after the value of the set of the same key that the thread completed    *)
(* just before) and the value of its last completed set of each key.       *)
(***************************************************************************)
\* the keys of each thread
ClientKeys == <<{"k1"}, {"k2", "k3"}>>

Clients == DOMAIN ClientKeys

NoOp ==
    [op |-> "none", key |-> NoneVal, value |-> NoneVal, ret |-> NoneVal, age |-> -1,
     after |-> NoneVal]

ClientIdle(t) ==
    [pc |-> "idle", key |-> NoneVal, value |-> NoneVal, time |-> 0,
     last |-> NoOp, written |-> [k \in ClientKeys[t] |-> NoneVal]]

InitThreads ==
    /\ \E msize \in 1..MaxCacheSize : CacheInit(AbsentFile, TtlBound, TtlBound, msize)
    /\ ServiceInit("none", Unset, FALSE, FALSE)
    /\ c_threads = [t \in Clients |-> ClientIdle(t)]
    /\ TranscriberInit(QueueMaxsize, 0)

\* thread t calls cache.get(key): with self._lock, the whole body
ClientGet(t, key) ==
    LET o == CacheObj(cache, timestamps)
    IN  /\ c_threads[t].pc = "idle"
        /\ lock = 0
        /\ cache' = GetState(o, key, now, ttl_seconds).cache
        /\ timestamps' = GetState(o, key, now, ttl_seconds).timestamps
        /\ c_threads' = [c_threads EXCEPT
              ![t].last = [op |-> "get", key |-> key, value |-> NoneVal,
                           ret |-> GetResult(o, key, now, ttl_seconds),
                           age |-> AgeOf(o, key, now),
                           after |-> IF c_threads[t].last.op = "set"
                                        /\ c_threads[t].last.key = key
                                     THEN c_threads[t].last.value ELSE NoneVal]]
        /\ UNCHANGED <<maxsize, ttl_seconds, cache_file, save_threads, cache_op, lock,
                       now, serviceVars, sessionVars>>

\* a set that does not take the lock
ClientSetBeginNoLock(t, key, value) ==
    LET o1 == SetBeginState(CacheObj(cache, timestamps), key, value, maxsize)
    IN  /\ c_threads[t].pc = "idle"
        /\ cache' = o1.cache
        /\ timestamps' = o1.timestamps
        /\ c_threads' = [c_threads EXCEPT ![t].pc = "set", ![t].key = key,
                                          ![t].value = value, ![t].time = now]
        /\ UNCHANGED <<maxsize, ttl_seconds, cache_file, save_threads, cache_op, lock,
                       now, serviceVars, sessionVars>>

\* thread t calls cache.set(key, value): the lock is taken, current_time is
\* read and the body runs up to self._cache[key] = value
ClientSetBegin(t, key, value) ==
    LET o1 == SetBeginState(CacheObj(cache, timestamps), key, value, maxsize)
    IN  /\ c_threads[t].pc = "idle"
        /\ lock = 0
        /\ lock' = t
        /\ cache' = o1.cache
        /\ timestamps' = o1.timestamps
        /\ c_threads' = [c_threads EXCEPT ![t].pc = "set", ![t].key = key,
                                          ![t].value = value, ![t].time = now]
        /\ UNCHANGED <<maxsize, ttl_seconds, cache_file, save_threads, cache_op, now,
                       serviceVars, sessionVars>>

\* the rest of the set of thread t: self._timestamps[key] = current_time, the
\* periodic save, and the lock is released
ClientSetEnd(t) ==
    LET me == c_threads[t]
        o1 == SetEndState(CacheObj(cache, timestamps), me.key, me.time)
    IN  /\ me.pc = "set"
        /\ lock' = 0
        /\ timestamps' = o1.timestamps
        /\ save_threads' = Spawn(save_threads, o1.spawned)
        /\ c_threads' = [c_threads EXCEPT
              ![t].pc = "idle",
              ![t].last = [op |-> "set", key |-> me.key, value |-> me.value,
                           ret |-> NoneVal, age |-> -1, after |-> NoneVal],
              ![t].written = [me.written EXCEPT ![me.key] = me.value]]
        /\ UNCHANGED <<cache, maxsize, ttl_seconds, cache_file, cache_op, now,
                       serviceVars, sessionVars>>

NextThreads ==
    \/ \E t \in Clients : \E key \in ClientKeys[t] : ClientGet(t, key)
    \/ \E t \in Clients : \E key \in ClientKeys[t], value \in CacheValueSet :
          ClientSetBegin(t, key, value)
    \/ \E t \in Clients : ClientSetEnd(t)
    \/ Tick

SpecThreads == InitThreads /\ [][NextThreads]_vars

\* the thread that uses key k
OwnerOf(k) == CHOOSE t \in Clients : k \in ClientKeys[t]

\* the value of the last completed set of key k, NoneVal before the first
LastWrite(k) == c_threads[OwnerOf(k)].written[k]

\* a set of key k has assigned the value and not yet the timestamp
MidSet(k) == \E t \in Clients : c_threads[t].pc = "set" /\ c_threads[t].key = k

\* between calls nothing is half done: a set in progress holds the lock, the
\* two maps have the same keys whenever the lock is free, a get returned a
\* miss or the last completed write, and a resident key holds its last write
C14_CallsAreAtomic ==
    /\ \A t \in Clients : c_threads[t].pc = "set" <=> lock = t
    /\ lock = 0 => DOMAIN timestamps = CacheKeys(cache)
    /\ \A t \in Clients :
          c_threads[t].last.op = "get"
             => c_threads[t].last.ret \in {NoneVal, c_threads[t].written[c_threads[t].last.key]}
    /\ \A k \in CacheKeys(cache) : ~MidSet(k) => CacheValue(cache, k) = LastWrite(k)

\* a key leaves the cache only as the least recently used entry of a full
\* cache into which a new key is set, or in a get that finds it expired
C14_LostOnlyByEvictionOrExpiry ==
    \A k \in CacheKeys(cache) \ CacheKeys(cache') :
       \/ /\ Len(cache) >= maxsize
          /\ k = Head(cache).key
          /\ CacheKeys(cache') \ CacheKeys(cache) # {}
       \/ /\ now - timestamps[k] > ttl_seconds
          /\ CacheKeys(cache') = CacheKeys(cache) \ {k}

\* C14: threads that call set and get concurrently on disjoint key sets see
\* each call take effect atomically: a get returns a miss or the value of the
\* most recent completed set of its key, the value map and the timestamp map
\* have the same keys, an entry is lost only by LRU eviction or TTL expiry,
\* and every resident key holds its last write.
C14_AtomicSetAndGet == []C14_CallsAreAtomic /\ [][C14_LostOnlyByEvictionOrExpiry]_vars

\* both threads have written, one key has been evicted, a get of one thread
\* has returned its last write and the other thread is inside a set
C14_Witness ==
    /\ \E k \in CacheKeySet : LastWrite(k) # NoneVal /\ k \notin CacheKeys(cache)
    /\ \E t \in Clients :
          /\ c_threads[t].last.op = "get"
          /\ c_threads[t].last.ret # NoneVal
          /\ \E u \in Clients \ {t} :
                /\ c_threads[u].pc = "set"
                /\ \E k \in ClientKeys[u] : c_threads[u].written[k] # NoneVal

\* the keys some thread has set so far
WrittenKeys == {k \in CacheKeySet : LastWrite(k) # NoneVal}

ServiceTexts == {"a", "b", " "}

\* the lists of at most n texts
RECURSIVE TextLists(_)
TextLists(n) ==
    IF n = 0 THEN {<<>>}
    ELSE TextLists(n - 1) \cup
         {Append(l, x) : l \in {l \in TextLists(n - 1) : Len(l) = n - 1}, x \in ServiceTexts}

\* the services _init_impl can leave: DeepL with Google as fallback, DeepL
\* alone, Google alone, and none (mode "none")
InitService ==
    /\ CacheInit(AbsentFile, 0, DefaultTtl, DefaultCacheMaxsize)
    /\ \E ec \in BOOLEAN :
          \/ ServiceInit("deepl", "deepl", TRUE, ec)
          \/ ServiceInit("deepl", "deepl", FALSE, ec)
          \/ ServiceInit("google", "google", FALSE, ec)
          \/ ServiceInit("none", Unset, FALSE, ec)
    /\ NoClients
    /\ TranscriberInit(QueueMaxsize, 0)

\* the counters stay within 0..MaxCount
WithinCount(m) == \A f \in DOMAIN m : m[f] <= MaxCount

\* the outcome of a backend call that is not made is not an input: it is
\* written "ok".  calls[i] counts the backend calls made for text i, the
\* preferred backend's first.
OutsConsulted(outs, calls) ==
    \A i \in DOMAIN outs :
       /\ calls[i] = 0 => outs[i].p = "ok"
       /\ calls[i] < 2 => outs[i].f = "ok"

\* service.translate(text)
TranslateCall(text, on, out) ==
    LET det == DetectLanguage(text, on)
    IN  \E r \in {Translate(text, det, CacheObj(cache, timestamps), quality_metrics,
                            Svc(impl, preferred_provider, fallback_impl, enable_cache),
                            out, now, ttl_seconds, maxsize)} :
        /\ WithinCount(r.metrics)
        /\ OutsConsulted(<<out>>, <<r.calls>>)
        /\ cache' = r.o.cache
        /\ timestamps' = r.o.timestamps
        /\ save_threads' = Spawn(save_threads, r.o.spawned)
        /\ quality_metrics' = r.metrics
        /\ svc_op' = [op |-> "translate", texts |-> <<text>>, results |-> <<r.result>>,
                      raised |-> r.raised, calls |-> <<r.calls>>,
                      before |-> quality_metrics, cached |-> <<r.path = "hit">>,
                      det |-> <<det>>, outs |-> <<out>>, each |-> <<>>,
                      path |-> r.path]
        /\ UNCHANGED <<maxsize, ttl_seconds, cache_file, cache_op, lock, c_threads, now,
                       impl, preferred_provider, fallback_impl, enable_cache,
                       sessionVars>>

\* service.translate_batch(texts); translate_batch detects no language: on
\* is used for each only
TranslateBatchCall(texts, outs) ==
    LET o    == CacheObj(cache, timestamps)
        svc  == Svc(impl, preferred_provider, fallback_impl, enable_cache)
    IN  \E r \in {TranslateBatch(texts, o, quality_metrics, svc, outs, now, ttl_seconds,
                                 maxsize)},
           look \in {BatchLookup(texts, 1, o, <<>>, svc, now, ttl_seconds).results} :
        /\ WithinCount(r.metrics)
        /\ OutsConsulted(outs, r.calls)
        /\ cache' = r.o.cache
        /\ timestamps' = r.o.timestamps
        /\ save_threads' = Spawn(save_threads, r.o.spawned)
        /\ quality_metrics' = r.metrics
        /\ \E on \in BOOLEAN :
              LET dets == [i \in 1..Len(texts) |-> DetectLanguage(texts[i], on)]
              IN  svc_op' = [op |-> "translate_batch", texts |-> texts,
                             results |-> r.results, raised |-> r.raised,
                             calls |-> r.calls, before |-> quality_metrics,
                             cached |-> [i \in 1..Len(texts) |->
                                           /\ impl # "none"
                                           /\ ~Blank(texts[i])
                                           /\ look[i] # NoneVal],
                             det |-> dets, outs |-> outs,
                             each |-> TranslateEach(texts, 1, o, quality_metrics, svc,
                                                    dets, outs, now, ttl_seconds,
                                                    maxsize, <<>>),
                             path |-> "batch"]
        /\ UNCHANGED <<maxsize, ttl_seconds, cache_file, cache_op, lock, c_threads, now,
                       impl, preferred_provider, fallback_impl, enable_cache,
                       sessionVars>>

\* the outcomes that can be consulted: the fallback's only after the
\* preferred backend raised, and only when there is a fallback
OutcomesOf(fb) == {out \in Outcomes : out.f = "raise" => fb /\ out.p = "raise"}

\* the outcomes for a list of texts: no backend is called for a blank text
RECURSIVE OutcomeLists(_, _)
OutcomeLists(texts, fb) ==
    IF texts = <<>> THEN {<<>>}
    ELSE {<<h>> \o t :
             h \in IF Blank(Head(texts)) THEN {[p |-> "ok", f |-> "ok"]}
                   ELSE OutcomesOf(fb),
             t \in OutcomeLists(Tail(texts), fb)}

NextService ==
    \/ \E text \in ServiceTexts, on \in BOOLEAN, out \in OutcomesOf(fallback_impl) :
          TranslateCall(text, on, out)
    \/ \E texts \in TextLists(MaxBatch) :
          \E outs \in OutcomeLists(texts, fallback_impl) :
             TranslateBatchCall(texts, outs)

SpecService == InitService /\ [][NextService]_vars

\* the texts of the last call for which the preferred backend raised
PreferredRaised == {i \in DOMAIN svc_op.outs : svc_op.outs[i].p = "raise"}

\* the error counter of the preferred backend
ErrorCounter == preferred_provider \o "_errors"

\* C16: when the preferred backend raises for a text and a fallback is
\* configured, the fallback is called exactly once for that text (the second
\* of two backend calls), its result is returned when it returns one, and the
\* call adds one to the preferred backend's error counter and one to the
\* fallback's request counter for each such text.
C16_FallbackOnceAndCounted ==
    svc_op.op # "init" /\ fallback_impl
       => /\ \A i \in PreferredRaised :
                /\ svc_op.calls[i] = 2
                /\ svc_op.outs[i].f = "ok"
                      => svc_op.results[i] = BackendTranslate("google", svc_op.texts[i])
          /\ quality_metrics[ErrorCounter]
                = svc_op.before[ErrorCounter] + Cardinality(PreferredRaised)
          /\ quality_metrics.google_requests
                = svc_op.before.google_requests + Cardinality(PreferredRaised)

\* translate("a") on a service with a fallback: the preferred backend raised
\* and the fallback's translation was returned
C16_Witness ==
    /\ svc_op.op = "translate"
    /\ fallback_impl
    /\ svc_op.outs[1] = [p |-> "raise", f |-> "ok"]
    /\ svc_op.results = <<BackendTranslate("google", "a")>>
    /\ quality_metrics.deepl_errors = svc_op.before.deepl_errors + 1

\* C17: translate and translate_batch never raise because of a backend, and
\* a text for which the preferred backend failed and the fallback is absent
\* or failed too is returned unchanged.
C17_BestEffort ==
    /\ ~svc_op.raised
    /\ Len(svc_op.results) = Len(svc_op.texts)
    /\ \A i \in PreferredRaised :
          ~fallback_impl \/ svc_op.outs[i].f = "raise"
             => svc_op.results[i] = svc_op.texts[i]

\* a batch in which both backends failed for one text and the preferred
\* backend succeeded for another
C17_Witness ==
    /\ svc_op.op = "translate_batch"
    /\ fallback_impl
    /\ \E i \in PreferredRaised :
          /\ svc_op.outs[i].f = "raise"
          /\ svc_op.results[i] = svc_op.texts[i]
    /\ \E i \in DOMAIN svc_op.texts :
          /\ svc_op.calls[i] = 1
          /\ svc_op.results[i] = BackendTranslate(impl, svc_op.texts[i])

\* the backend of the last call was deterministic: the same text had the
\* same outcome wherever it stood in the list
DeterministicBackend ==
    \A i, j \in DOMAIN svc_op.texts :
       svc_op.texts[i] = svc_op.texts[j] /\ svc_op.calls[i] > 0 /\ svc_op.calls[j] > 0
          => svc_op.outs[i] = svc_op.outs[j]

\* C19: with a deterministic backend translate_batch(texts) returns a list
\* of the length of texts whose element i is the value translate(texts[i])
\* returns, blank, duplicate and cached elements included.
C19_BatchEqualsEach ==
    svc_op.op = "translate_batch" /\ DeterministicBackend
       => /\ Len(svc_op.results) = Len(svc_op.texts)
          /\ \A i \in DOMAIN svc_op.texts : svc_op.results[i] = svc_op.each[i]

\* what the last call added to counter f
Added(f) == quality_metrics[f] - svc_op.before[f]

\* 1 when b holds, else 0
Count(b) == IF b THEN 1 ELSE 0

\* C20: every translate call on a non-blank text adds exactly one to
\* total_requests whatever its outcome (cache hit, preferred backend success,
\* fallback success, both backends failing); every attempt on a backend adds
\* one to that backend's request counter and every failed attempt one to its
\* error counter.
C20_EveryCallCounted ==
    svc_op.op = "translate" /\ impl # "none" /\ ~Blank(svc_op.texts[1])
       => LET tried   == svc_op.calls[1] >= 1
              failed  == svc_op.outs[1].p = "raise"
              tried2  == svc_op.calls[1] = 2
              failed2 == svc_op.outs[1].f = "raise"
          IN  /\ Added("total_requests") = 1
              /\ Added("deepl_requests") = Count(tried /\ preferred_provider = "deepl")
              /\ Added("deepl_errors") = Count(failed /\ preferred_provider = "deepl")
              /\ Added("google_requests")
                    = Count(tried /\ preferred_provider = "google") + Count(tried2)
              /\ Added("google_errors")
                    = Count(failed /\ preferred_provider = "google") + Count(failed2)

\* what a backend that succeeded can have returned for a text
BackendResults(text) == {BackendTranslate(kind, text) : kind \in {"deepl", "google"}}

\* every value in the cache is the result of a backend for the text of its key
C40_OnlyBackendResults ==
    \A i \in DOMAIN cache :
       \E text \in ServiceTexts :
          /\ cache[i].key = GetCacheKey(text)
          /\ cache[i].value \in BackendResults(text)

\* text i of the last call went to the backends and every call made for it
\* failed, as did every call made for another occurrence of the same text
AllFailed(i) ==
    /\ ~Blank(svc_op.texts[i])
    /\ ~svc_op.cached[i]
    /\ svc_op.path \in {"backend", "batch"}
    /\ \A j \in DOMAIN svc_op.texts :
          svc_op.texts[j] = svc_op.texts[i]
             => svc_op.outs[j].p = "raise"
                /\ (fallback_impl => svc_op.outs[j].f = "raise")

\* the call returned the original text for it and cached nothing under its key
C40_FailureNotCached ==
    svc_op.op # "init" /\ impl # "none" /\ ~svc_op.raised
       => \A i \in DOMAIN svc_op.texts :
             AllFailed(i)
                => /\ svc_op.results[i] = svc_op.texts[i]
                   /\ GetCacheKey(svc_op.texts[i]) \notin CacheKeys(cache)

\* a translate of a text that has no entry goes to the backend
C40_MissCallsBackend ==
    (/\ svc_op' # svc_op
     /\ svc_op'.op = "translate"
     /\ svc_op'.path \notin {"skip", "detected"}
     /\ GetCacheKey(svc_op'.texts[1]) \notin CacheKeys(cache))
       => svc_op'.path = "backend" /\ svc_op'.calls[1] >= 1

\* C40: a value is stored in the cache by the translation service only if it
\* was returned by a backend call that succeeded: when both backends fail for
\* a text (the original text is returned), nothing is cached under that
\* text's key, so a later translate of the same text calls the backend again
\* rather than returning the untranslated text from the cache.
C40_OnlySuccessesCached ==
    /\ [](C40_OnlyBackendResults /\ C40_FailureNotCached)
    /\ [][C40_MissCallsBackend]_vars

\* translate("a") failed on both backends a second time: the first failure
\* left no entry and the backends were called again
C40_Witness ==
    /\ enable_cache /\ fallback_impl
    /\ svc_op.op = "translate"
    /\ svc_op.texts = <<"a">>
    /\ svc_op.results = <<"a">>
    /\ svc_op.calls = <<2>>
    /\ svc_op.before.deepl_errors = 1
    /\ svc_op.before.google_errors = 1
    /\ svc_op.before.cache_hits = 0
    /\ cache = <<>>

\* no backend has more errors counted than requests
ErrorsWithinRequests ==
    /\ quality_metrics.deepl_errors <= quality_metrics.deepl_requests
    /\ quality_metrics.google_errors <= quality_metrics.google_requests

\* C39: in every reachable state of the translation service, cache_hits <=
\* total_requests, deepl_errors <= deepl_requests and google_errors <=
\* google_requests, so that every rate reported by get_quality_metrics lies
\* between 0 and 1.
C39_RatesWithinUnit ==
    /\ quality_metrics.cache_hits <= quality_metrics.total_requests
    /\ ErrorsWithinRequests

(***************************************************************************)
(* A service constructed with mode "none" and the cache disabled, into     *)
(* which a backend is injected by assigning impl, as test_rate_limiting    *)
(* and test_batch_translation do; preferred_provider is never assigned.    *)
(***************************************************************************)
InitInjected ==
    /\ CacheInit(AbsentFile, 0, DefaultTtl, DefaultCacheMaxsize)
    /\ ServiceInit("none", Unset, FALSE, FALSE)
    /\ NoClients
    /\ TranscriberInit(QueueMaxsize, 0)

\* service.impl = MockTranslator()
InjectImpl ==
    /\ impl = "none"
    /\ impl' = "mock"
    /\ UNCHANGED <<cacheVars, preferred_provider, fallback_impl, enable_cache,
                   quality_metrics, svc_op, sessionVars>>

NextInjected ==
    \/ InjectImpl
    \/ \E text \in ServiceTexts, on \in BOOLEAN, out \in OutcomesOf(fallback_impl) :
          TranslateCall(text, on, out)
    \/ \E texts \in TextLists(MaxBatch) :
          \E outs \in OutcomeLists(texts, fallback_impl) :
             TranslateBatchCall(texts, outs)

SpecInjected == InitInjected /\ [][NextInjected]_vars

\* C18: on a service built with mode "none" and no cache into which a
\* backend was injected by assigning impl only, translate returns the
\* backend's translation of every non-blank text and translate_batch that of
\* every element.
C18_InjectedBackendTranslates ==
    svc_op.op # "init" /\ impl = "mock"
       => /\ ~svc_op.raised
          /\ Len(svc_op.results) = Len(svc_op.texts)
          /\ \A i \in DOMAIN svc_op.texts :
                ~Blank(svc_op.texts[i])
                   => svc_op.results[i] = BackendTranslate("mock", svc_op.texts[i])

(***************************************************************************)
(* translate called concurrently by several threads on one service.  The   *)
(* cache calls run under the cache's lock and are one step each.  Nothing  *)
(* guards _quality_metrics: a += 1 on a counter is a read of the counter   *)
(* and a later write of the value read plus one, and other threads run in  *)
(* between.  Each thread keeps in counted the events its calls counted.    *)
(***************************************************************************)
\* the counters in the order a call increments them
CounterOrder ==
    <<"cache_hits", "total_requests", "deepl_requests", "deepl_errors",
      "google_requests", "google_errors">>

\* the counters a call increments, given what it adds to each
Increments(delta) == SelectSeq(CounterOrder, LAMBDA f : delta[f] > 0)

CallerIdle ==
    [pc |-> "idle", text |-> NoneVal, result |-> NoneVal, path |-> "none",
     todo |-> <<>>, reg |-> 0, calls |-> 0, counted |-> ZeroMetrics]

InitMetrics ==
    /\ CacheInit(AbsentFile, 0, DefaultTtl, DefaultCacheMaxsize)
    /\ \E ec \in BOOLEAN :
          \/ ServiceInit("deepl", "deepl", TRUE, ec)
          \/ ServiceInit("google", "google", FALSE, ec)
    /\ c_threads = [t \in Clients |-> CallerIdle]
    /\ TranscriberInit(QueueMaxsize, 0)

\* thread t calls translate(text) on a non-blank text that is not detected as
\* being in the target language: up to the cache lookup of translate
CallTranslate(t, text) ==
    LET o   == CacheObj(cache, timestamps)
        hit == enable_cache /\ GetResult(o, GetCacheKey(text), now, ttl_seconds) # NoneVal
        o1  == IF enable_cache THEN GetState(o, GetCacheKey(text), now, ttl_seconds) ELSE o
    IN  /\ c_threads[t].pc = "idle"
        /\ c_threads[t].calls < MaxCount
        /\ cache' = o1.cache
        /\ timestamps' = o1.timestamps
        /\ c_threads' = [c_threads EXCEPT
              ![t].pc = IF hit THEN "count" ELSE "batch",
              ![t].text = text,
              ![t].calls = @ + 1,
              ![t].path = IF hit THEN "hit" ELSE "none",
              ![t].result = IF hit THEN GetResult(o, GetCacheKey(text), now, ttl_seconds)
                            ELSE NoneVal,
              ![t].todo = IF hit THEN <<"cache_hits">> ELSE <<>>]
        /\ UNCHANGED <<maxsize, ttl_seconds, cache_file, save_threads, cache_op, lock,
                       now, serviceVars, sessionVars>>

\* translate_batch([text]) up to its own cache lookup; on a miss the backend
\* calls of _translate_with_fallback have outcomes out, and todo lists the
\* counters the call increments
CallBatchLookup(t, out) ==
    LET me  == c_threads[t]
        o   == CacheObj(cache, timestamps)
        hit == enable_cache
               /\ GetResult(o, GetCacheKey(me.text), now, ttl_seconds) # NoneVal
        o1  == IF enable_cache THEN GetState(o, GetCacheKey(me.text), now, ttl_seconds)
               ELSE o
        r   == TranslateWithFallback(me.text, ZeroMetrics,
                  Svc(impl, preferred_provider, fallback_impl, enable_cache), out)
    IN  /\ me.pc = "batch"
        /\ hit => out = [p |-> "ok", f |-> "ok"]
        /\ ~hit => OutsConsulted(<<out>>, <<r.calls>>)
        /\ cache' = o1.cache
        /\ timestamps' = o1.timestamps
        /\ c_threads' = [c_threads EXCEPT
              ![t].pc = "count",
              ![t].path = IF hit THEN "hit" ELSE "backend",
              ![t].result = IF hit
                            THEN GetResult(o, GetCacheKey(me.text), now, ttl_seconds)
                            ELSE r.result,
              ![t].todo = IF hit THEN <<>> ELSE Increments(r.metrics)]
        /\ UNCHANGED <<maxsize, ttl_seconds, cache_file, save_threads, cache_op, lock,
                       now, serviceVars, sessionVars>>

\* self._quality_metrics[f] += 1, first half: the counter is read
CounterRead(t) ==
    LET me == c_threads[t]
    IN  /\ me.pc = "count"
        /\ me.todo # <<>>
        /\ c_threads' = [c_threads EXCEPT ![t].pc = "write",
                                          ![t].reg = quality_metrics[Head(me.todo)]]
        /\ UNCHANGED <<cache, timestamps, maxsize, ttl_seconds, cache_file, save_threads,
                       cache_op, lock, now, serviceVars, sessionVars>>

\* self._quality_metrics[f] += 1, second half: the value read plus one is stored
CounterWrite(t) ==
    LET me == c_threads[t]
    IN  /\ me.pc = "write"
        /\ quality_metrics' = [quality_metrics EXCEPT ![Head(me.todo)] = me.reg + 1]
        /\ c_threads' = [c_threads EXCEPT
              ![t].pc = "count",
              ![t].todo = Tail(me.todo),
              ![t].counted = [me.counted EXCEPT ![Head(me.todo)] = @ + 1]]
        /\ UNCHANGED <<cache, timestamps, maxsize, ttl_seconds, cache_file, save_threads,
                       cache_op, lock, now, impl, preferred_provider, fallback_impl,
                       enable_cache, svc_op, sessionVars>>

\* the end of the call: translate_batch caches a translation that differs
\* from the text, and translate returns
CallReturn(t) ==
    LET me == c_threads[t]
        o1 == IF enable_cache /\ me.path = "backend" /\ me.result # me.text
              THEN SetState(CacheObj(cache, timestamps), GetCacheKey(me.text),
                            me.result, now, maxsize)
              ELSE CacheObj(cache, timestamps)
    IN  /\ me.pc = "count"
        /\ me.todo = <<>>
        /\ cache' = o1.cache
        /\ timestamps' = o1.timestamps
        /\ save_threads' = Spawn(save_threads, o1.spawned)
        /\ c_threads' = [c_threads EXCEPT ![t].pc = "idle", ![t].text = NoneVal,
                                          ![t].result = NoneVal, ![t].reg = 0,
                                          ![t].path = "none"]
        /\ UNCHANGED <<maxsize, ttl_seconds, cache_file, cache_op, lock, now,
                       serviceVars, sessionVars>>

NextMetrics ==
    \/ \E t \in Clients, text \in ServiceTexts \ {" "} : CallTranslate(t, text)
    \/ \E t \in Clients, out \in OutcomesOf(fallback_impl) : CallBatchLookup(t, out)
    \/ \E t \in Clients : CounterRead(t)
    \/ \E t \in Clients : CounterWrite(t)
    \/ \E t \in Clients : CallReturn(t)

SpecMetrics == InitMetrics /\ [][NextMetrics]_vars

\* the events counter f counts, over the calls of all threads
Events(f) == c_threads[1].counted[f] + c_threads[2].counted[f]

\* C21: translate called concurrently loses no metrics update: once all
\* calls have returned every counter equals the number of events it counts.
C21_NoLostUpdate ==
    (\A t \in Clients : c_threads[t].pc = "idle")
       => \A f \in DOMAIN quality_metrics : quality_metrics[f] = Events(f)

(***************************************************************************)
(* The session: one transcriber, one run of start()                        *)
(***************************************************************************)
\* the outcomes of the backend calls for a batch of n texts when only the
\* preferred backend is configured
BatchOutcomes(n) == [1..n -> {[p |-> "ok", f |-> "ok"], [p |-> "raise", f |-> "ok"]}]

\* a transcriber whose translator uses Google only, or none (translator mode
\* "none"); the cache file is absent
Init ==
    /\ CacheInit(AbsentFile, 0, DefaultTtl, DefaultCacheMaxsize)
    /\ \/ ServiceInit("google", "google", FALSE, TRUE)
       \/ ServiceInit("none", Unset, FALSE, TRUE)
    /\ NoClients
    /\ TranscriberInit(QueueMaxsize, MaxMessages)

MainStep ==
    \/ \E ok \in BOOLEAN : StartOpen(ok)
    \/ StartWorker
    \/ \E ok \in BOOLEAN : Connect(ok)
    \/ Setup
    \/ LoopCheck
    \/ \E outcome \in {"sent", "empty", "raise"} : ReadSend(outcome)
    \/ InnerFinally
    \/ CloseStream
    \/ JoinListener
    \/ ExitWith
    \/ OuterFinally
    \/ JoinWorker
    \/ CloseAudio
    \/ Summary

WorkerStep ==
    \/ WorkerCond
    \/ WorkerCondQueue
    \/ WorkerCollect
    \/ WorkerSleep
    \/ \E outs \in BatchOutcomes(Len(batch_items)) : WorkerTranslate(outs)
    \/ \E raises \in BOOLEAN : WorkerCallback(raises)
    \/ WorkerAck
    \/ WorkerExit

ListenerStep ==
    \/ \E text \in Texts : HandlerFinal(text)
    \/ HandlerEnqueue
    \/ \E text \in Texts : HandlerInterim(text)
    \/ ConnError
    \/ ConnClose

KeepaliveStep == \E silent, sent \in BOOLEAN : Keepalive(silent, sent)

Next ==
    \/ MainStep
    \/ WorkerStep
    \/ ListenerStep
    \/ KeepaliveStep
    \/ Stop
    \/ Interrupt

Spec == Init /\ [][Next]_vars

\* the timestamps of the items on the queue
QueuedStamps == {translation_queue[i].timestamp : i \in 1..Len(translation_queue)}

\* The threads of the session are scheduled: the thread running start(), the
\* translation worker and the keepalive thread each take a step when they
\* can.  Nothing is assumed of the user (stop(), Ctrl+C) nor of the
\* connection (transcripts, errors, close).
FairSpec ==
    /\ Spec
    /\ WF_vars(MainStep)
    /\ WF_vars(WorkerStep)
    /\ WF_vars(KeepaliveStep)

\* C1: every accepted item has its callback invoked at most once and the
\* provider asked for it at most once, and every translation event delivered
\* carries the translation of its own transcript (or the transcript itself
\* when the provider failed), whatever raises during a batch.
C1_AtMostOnce ==
    /\ \A t \in DOMAIN cb_count : cb_count[t] <= 1 /\ asked[t] <= 1
    /\ \A i \in 1..Len(events) :
          events[i].translation # NoneVal =>
             /\ events[i].timestamp \in accepted
             /\ events[i].translation \in
                   {BackendTranslate("google", events[i].transcript),
                    events[i].transcript}

\* C2: the worker terminates only when the session is no longer recording,
\* and at the step by which it terminates the queue is empty, its batch is
\* empty and every item it took off the queue has had its callback invoked.
C2_DrainedAtExit ==
    [][(w_pc # "done" /\ w_pc' = "done") =>
          /\ ~is_recording'
          /\ translation_queue' = <<>>
          /\ batch_items' = <<>>
          /\ \A t \in accepted' :
                t \in QueuedStamps' \/ cb_count'[t] >= 1]_vars

\* C5: a translation event is delivered only after the transcript-only
\* event of the same transcript and timestamp, and once the worker has
\* terminated every accepted item has had its translation delivered to the
\* callback.
C5_TranslationAfterTranscript ==
    /\ \A i \in 1..Len(events) :
          events[i].translation # NoneVal =>
             \E j \in 1..(i - 1) :
                /\ events[j].translation = NoneVal
                /\ events[j].is_final
                /\ events[j].transcript = events[i].transcript
                /\ events[j].timestamp = events[i].timestamp
    /\ w_pc = "done" /\ l_pc # "enqueue" =>
          \A t \in accepted : cb_count[t] >= 1

\* the session is Streaming and no stop has been requested
StreamingState == is_recording /\ m_pc \in {"loop", "read"} /\ conn # "none"

\* start() has returned
Returned == m_pc = "returned"

\* C6: when the connection has reported an error or has closed while the
\* session is Streaming, start() eventually returns without waiting for a
\* stop request: it does not stay in the read loop until one comes.
C6_ConnectionLossEndsSession ==
    (StreamingState /\ conn \in {"error", "closed"} /\ ~stop_requested)
        ~> (Returned \/ stop_requested)

\* C7: once stop() or Ctrl+C has come while the session was Streaming, the
\* read loop, the worker and the keepalive loop all exit and start() returns.
C7_StopEndsAllLoops ==
    [](StreamingState /\ ~stop_requested =>
          [](stop_requested =>
                <>(Returned /\ w_pc = "done" /\ k_pc = "done")))

\* a batch the worker holds is completed or given up
C32_BatchIsLeft == (batch_items # <<>>) ~> (batch_items = <<>> \/ w_pc = "done")

\* once the stop flag is set the worker terminates
C32_WorkerTerminates == (~is_recording /\ w_pc # "unstarted") ~> (w_pc = "done")

\* C32: if processing a batch raises an exception (from translate_batch or
\* from a completion callback), the worker still makes progress: it does not
\* retry the same batch forever, it does not loop without sleeping, and after
\* the stop flag is set it terminates.
C32_WorkerProgress == C32_BatchIsLeft /\ C32_WorkerTerminates

\* the completion callback of item t has been invoked
CallbackInvoked(t) == t \in DOMAIN cb_count /\ cb_count[t] >= 1

\* C33: every item accepted into the translation queue eventually has its
\* completion callback invoked; in particular an item enqueued for a final
\* transcript that arrives after the stop flag was set is not left in the
\* queue forever after the worker has exited.
C33_AcceptedIsCalledBack ==
    \A t \in 1..MaxMessages : (t \in accepted) ~> CallbackInvoked(t)

\* a thread of the session that was never started or has ended
Ended(pc) == pc \in {"unstarted", "done"}

\* once start() has returned the three threads of the session have ended
C34_ThreadsEnded == Returned => Ended(l_pc) /\ Ended(w_pc) /\ Ended(k_pc)

\* once start() has returned the consumer receives no event
C34_NoEventAfterReturn == Returned => events' = events

\* C34: after start() has returned (session Closed, summary finalized), no
\* further TranscriptionEvent is delivered to the consumer callback and no
\* thread started by the session (listener, translation worker, keepalive)
\* is still running or still sending on the connection.
C34_QuietAfterReturn == []C34_ThreadsEnded /\ [][C34_NoEventAfterReturn]_vars

\* C35: a stop() request issued from another thread at any moment after
\* start() has been invoked, including before start() has set the recording
\* flag to true, is not lost: the session eventually reaches Closed without
\* a second stop request.
C35_StopIsNotLost == stop_requested ~> Returned

\* C8: when connect() has failed, the session was never Streaming and no
\* thread of the session has been started.
C8_NoThreadOnConnectFailure ==
    conn = "failed" =>
       /\ w_pc = "unstarted"
       /\ l_pc = "unstarted"
       /\ k_pc = "unstarted"
       /\ m_pc \notin {"setup", "loop", "read"}

\* C9: when audio_stream.open() has failed, start() has returned, the
\* recording flag is false, no thread was started, no connection was
\* attempted and the queue, the counters and the consumer's log are as
\* the constructor left them.
C9_NothingStartedOnAudioFailure ==
    audio = "failed" =>
       /\ m_pc = "returned"
       /\ ~is_recording
       /\ w_pc = "unstarted"
       /\ l_pc = "unstarted"
       /\ k_pc = "unstarted"
       /\ conn = "none"
       /\ translation_queue = <<>>
       /\ unfinished_tasks = 0
       /\ transcription_count = 0
       /\ bytes_sent = 0
       /\ close_sent = 0
       /\ quality_metrics = ZeroMetrics
       /\ events = <<>>
       /\ accepted = {}

\* audio_stream.open() has failed and start() has returned
C9_Witness == audio = "failed" /\ m_pc = "returned"

\* the steps of the shutdown, in the order of the claim: the flag is cleared,
\* CloseStream is sent, the listener is joined, (the with block is left and
\* the flag is cleared again,) the worker is joined, the audio source is
\* closed, the summary is printed
ShutdownOrder ==
    <<"inner_finally", "close_stream", "join_listener", "exit_with", "outer_finally",
      "join_worker", "close_audio", "summary", "returned">>

ShutdownRank(pc) ==
    IF \E i \in DOMAIN ShutdownOrder : ShutdownOrder[i] = pc
    THEN CHOOSE i \in DOMAIN ShutdownOrder : ShutdownOrder[i] = pc
    ELSE 0

\* each step of the shutdown is followed by the next one, and has the effect
\* the claim names
C29_StepsInOrder ==
    m_pc' # m_pc /\ ShutdownRank(m_pc) > 0 =>
       /\ ShutdownRank(m_pc') = ShutdownRank(m_pc) + 1
       /\ m_pc = "inner_finally" => ~is_recording'
       /\ m_pc = "close_stream" =>
             /\ ~is_recording
             /\ close_sent' = IF conn = "open" THEN close_sent + 1 ELSE close_sent
       /\ m_pc = "close_audio" => ~is_recording /\ audio = "open" /\ audio' = "closed"
       /\ m_pc = "summary" => audio = "closed"

\* the audio source is closed by the shutdown only, and a start() that opened
\* it returns with it closed
C29_ClosedOnce ==
    /\ audio = "closed" => ShutdownRank(m_pc) > ShutdownRank("close_audio")
    /\ audio = "open" => m_pc # "returned"
    /\ close_sent <= 1

\* C29: on shutdown after Streaming the session performs its steps in this
\* order: clears the recording flag, sends the CloseStream control message,
\* joins the listener thread, joins the translation worker thread, closes the
\* audio source, and only then finalizes the session summary; on every path
\* on which the audio source was opened it is closed exactly once.
C29_ShutdownOrder ==
    /\ []C29_ClosedOnce
    /\ [][C29_StepsInOrder]_vars
    /\ [][audio # audio' => audio' = "closed" \/ audio = "unopened"]_vars

\* start() has returned after a session that streamed a frame and sent
\* CloseStream
C29_Witness ==
    /\ m_pc = "returned"
    /\ audio = "closed"
    /\ close_sent = 1
    /\ bytes_sent > 0

(***************************************************************************)
(* Queue overflow: a session that is streaming (start() is in its read     *)
(* loop, all threads run) and whose worker has fallen behind: the queue    *)
(* holds a backlog just short of its capacity when the connection emits    *)
(* more final transcripts than fit.  Only the threads that touch the queue *)
(* take steps; the backends answer and the callbacks return.               *)
(***************************************************************************)
\* the state of a session in the read loop of start() after the handler has
\* queued backlog final transcripts that the worker has not yet looked at
Streaming(qmax, backlog, msgs) ==
    /\ is_recording = TRUE
    /\ translation_queue = [i \in 1..backlog |-> Item("a", i)]
    /\ queue_maxsize = qmax
    /\ unfinished_tasks = backlog
    /\ transcription_count = backlog
    /\ bytes_sent = 0
    /\ last_audio_time = 0
    /\ last_transcript = IF backlog > 0 THEN "a" ELSE ""
    /\ last_translation = ""
    /\ m_pc = "loop"
    /\ audio = "open"
    /\ conn = "open"
    /\ close_sent = 0
    /\ w_pc = "cond"
    /\ batch_items = <<>>
    /\ w_translations = <<>>
    /\ w_i = 0
    /\ l_pc = "listening"
    /\ l_event = NoEvent
    /\ k_pc = "loop"
    /\ k_wake = 0
    /\ wire = NoWire
    /\ msgs_left = msgs
    /\ stamp = backlog
    /\ events = [i \in 1..Min(MaxLog, backlog) |-> Event("a", NoneVal, TRUE, i)]
    /\ cb_count = [t \in 1..backlog |-> 0]
    /\ asked = [t \in 1..backlog |-> 0]
    /\ accepted = 1..backlog
    /\ dropped = {}
    /\ late = {}
    /\ stop_requested = FALSE

InitOverflow ==
    /\ CacheInit(AbsentFile, 0, DefaultTtl, DefaultCacheMaxsize)
    /\ ServiceInit("google", "google", FALSE, TRUE)
    /\ NoClients
    /\ Streaming(QueueMaxsize, QueueMaxsize - OverflowExtra, 2 * OverflowExtra)

AllOk(n) == [i \in 1..n |-> [p |-> "ok", f |-> "ok"]]

NextOverflow ==
    \/ HandlerFinal("a")
    \/ HandlerEnqueue
    \/ WorkerCond
    \/ WorkerCondQueue
    \/ WorkerCollect
    \/ WorkerSleep
    \/ WorkerTranslate(AllOk(Len(batch_items)))
    \/ WorkerCallback(FALSE)
    \/ WorkerAck
    \/ WorkerExit
    \/ Stop

SpecOverflow == InitOverflow /\ [][NextOverflow]_vars


\* C3: the translation queue never holds more than its capacity, which is
\* 100, and the producer never waits: whenever the handler is at its put, the
\* put can be taken at once, and an item it rejected is not on the queue.
C3_QueueBounded ==
    /\ queue_maxsize = QueueMaxsize
    /\ Len(translation_queue) <= queue_maxsize
    /\ l_pc = "enqueue" => ENABLED HandlerEnqueue
    /\ dropped \cap (accepted \cup QueuedStamps) = {}

\* the queue is full and the handler has just rejected an item
C3_Witness ==
    /\ Len(translation_queue) = QueueMaxsize
    /\ dropped # {}
    /\ l_pc = "listening"

\* the items the handler has finished offering
Offered == accepted \cup dropped

\* the worker has taken nothing off the queue
ConsumedNothing == Cardinality(accepted) = Len(translation_queue)

\* the items the worker holds in its batch, and those it has called back
BatchStamps == {batch_items[i].timestamp : i \in 1..Len(batch_items)}

\* C4: as long as the worker has consumed nothing, of k items offered to
\* the queue of capacity c the dropped ones are exactly those offered after
\* the first c (k - c of them when k > c); the callback of a dropped item is
\* never invoked, no backend is asked for it and no translation event is
\* delivered for it; and every accepted item is still waiting (on the queue
\* or in the worker's batch) or has had its callback invoked exactly once.
C4_OverflowDrops ==
    /\ ConsumedNothing =>
          /\ dropped = {t \in Offered : t > queue_maxsize}
          /\ Cardinality(dropped) = Max(0, Cardinality(Offered) - queue_maxsize)
    /\ \A t \in dropped :
          /\ cb_count[t] = 0
          /\ asked[t] = 0
          /\ \A i \in 1..Len(events) :
                events[i].timestamp = t => events[i].translation = NoneVal
    /\ \A t \in accepted :
          t \in QueuedStamps \/ t \in BatchStamps \/ cb_count[t] = 1

\* capacity + 2 items were offered before the worker consumed any, the last
\* two were dropped, and the worker then ran until nothing was waiting
C4_Witness ==
    /\ dropped = {QueueMaxsize + 1, QueueMaxsize + 2}
    /\ Cardinality(accepted) = QueueMaxsize
    /\ translation_queue = <<>>
    /\ batch_items = <<>>
    /\ \A t \in accepted : cb_count[t] = 1

\* what a get of the key of the text returns on the cache as it is
Resident(text) ==
    GetResult(CacheObj(cache, timestamps), GetCacheKey(text), now, ttl_seconds)

\* a call returns the cached value of every text whose key is resident and
\* unexpired, without a backend call for it
C30_HitReturnsCached ==
    LET op == svc_op'
    IN  op # svc_op /\ enable_cache /\ ~op.raised =>
           \A i \in DOMAIN op.texts :
              ~Blank(op.texts[i]) /\ Resident(op.texts[i]) # NoneVal =>
                 /\ op.results[i] = Resident(op.texts[i])
                 /\ op.calls[i] = 0

\* a call leaves every translation it obtained from a backend in the cache,
\* under the key of its text (of a text that occurs twice in a batch, one of
\* the translations obtained for it)
C30_MissIsStored ==
    LET op == svc_op'
    IN  op # svc_op /\ enable_cache /\ ~op.raised =>
           \A i \in DOMAIN op.texts :
              op.calls[i] > 0 /\ op.results[i] # op.texts[i] =>
                 /\ GetCacheKey(op.texts[i]) \in CacheKeys(cache')
                 /\ \E j \in DOMAIN op.texts :
                       /\ op.texts[j] = op.texts[i]
                       /\ op.calls[j] > 0
                       /\ CacheValue(cache', GetCacheKey(op.texts[i])) = op.results[j]

\* C30: if the key of a text is resident and unexpired in the cache,
\* translate and translate_batch return the cached value for it without
\* calling any backend; and a translation obtained from a backend for a cache
\* miss is stored under that text's key, so that the next translate of the
\* same text is a hit that calls no backend.
C30_CacheServesRepeats == [][C30_HitReturnsCached /\ C30_MissIsStored]_vars

(***************************************************************************)
(* The service called with empty and whitespace-only texts among others.   *)
(***************************************************************************)
BlankTexts == {"a", "", " "}

\* the lists of at most n texts of S
RECURSIVE ListsOf(_, _)
ListsOf(S, n) ==
    IF n = 0 THEN {<<>>}
    ELSE ListsOf(S, n - 1) \cup
         {Append(l, x) : l \in {l \in ListsOf(S, n - 1) : Len(l) = n - 1}, x \in S}

NextBlank ==
    \/ \E text \in BlankTexts, on \in BOOLEAN, out \in OutcomesOf(fallback_impl) :
          TranslateCall(text, on, out)
    \/ \E texts \in ListsOf(BlankTexts, MaxBatch) :
          \E outs \in OutcomeLists(texts, fallback_impl) :
             TranslateBatchCall(texts, outs)

SpecBlank == InitService /\ [][NextBlank]_vars

\* a text that is empty or made of whitespace only
EmptyOrWhitespace(text) == text \in {"", " "}

\* the positions of a list that hold other texts
OtherIndices(texts) ==
    SelectSeq([i \in 1..Len(texts) |-> i], LAMBDA i : ~EmptyOrWhitespace(texts[i]))

\* what translate_batch does with the other texts of the list alone
WithoutBlanks(texts, outs) ==
    LET keep == OtherIndices(texts)
    IN  TranslateBatch([j \in 1..Len(keep) |-> texts[keep[j]]],
                       CacheObj(cache, timestamps), quality_metrics,
                       Svc(impl, preferred_provider, fallback_impl, enable_cache),
                       [j \in 1..Len(keep) |-> outs[keep[j]]],
                       now, ttl_seconds, maxsize)

\* a call returns each empty or whitespace-only text as it is, without a
\* backend call or a cache hit for it, and changes the cache and the counters
\* as the call without these texts does
C28_BlankUntouched ==
    LET op == svc_op'
    IN  op # svc_op =>
        /\ \A i \in DOMAIN op.texts :
              EmptyOrWhitespace(op.texts[i]) =>
                 /\ op.results[i] = op.texts[i]
                 /\ op.calls[i] = 0
                 /\ ~op.cached[i]
        /\ (\A i \in DOMAIN op.texts : EmptyOrWhitespace(op.texts[i])) =>
              UNCHANGED <<cache, timestamps, save_threads, quality_metrics>>
        /\ op.op = "translate_batch" =>
              LET r == WithoutBlanks(op.texts, op.outs)
              IN  /\ cache' = r.o.cache
                  /\ timestamps' = r.o.timestamps
                  /\ quality_metrics' = r.metrics

\* C28: translate and translate_batch return an empty or whitespace-only text
\* unchanged, issue no backend call for it, and leave the cache and every
\* metrics counter unchanged: a call changes the cache and the counters as
\* the call without these texts does.
C28_BlankTextsPassThrough == [][C28_BlankUntouched]_vars

\* a batch of an empty text and a text the backend translated, after an
\* earlier request
C28_Witness ==
    /\ svc_op.op = "translate_batch"
    /\ svc_op.texts = <<"", "a">>
    /\ svc_op.results = <<"", BackendTranslate(impl, "a")>>
    /\ svc_op.calls = <<0, 1>>
    /\ quality_metrics.total_requests = 2

(***************************************************************************)
(* The keepalive thread and the read loop, with the clock.  now counts     *)
(* seconds.  A read of the audio source may take any time and a sleep may  *)
(* last longer than asked; the two statements that follow send_media take  *)
(* less than a second.                                                     *)
(***************************************************************************)
\* the body of the read loop up to connection.send_media(data): outcome is
\* "sent", "empty" (no data), or "raise" (an exception of the read or of the
\* send, printed, and the loop continues)
ReadFrame(outcome) ==
    /\ m_pc = "read"
    /\ outcome = "sent" => bytes_sent < MaxFrames /\ conn \in {"open", "error"}
    /\ IF outcome = "sent"
       THEN /\ wire' = [wire EXCEPT !.frame_at = now]
            /\ m_pc' = "stamp"
       ELSE /\ UNCHANGED wire
            /\ m_pc' = "loop"
    /\ UNCHANGED <<cacheVars, serviceVars, is_recording, queueVars, statVars, audio, conn,
                   close_sent, workerVars, listenerVars, k_pc, k_wake, envVars, histVars>>

\* self.bytes_sent += len(data); self.last_audio_time = time.time()
StampFrame ==
    /\ m_pc = "stamp"
    /\ bytes_sent' = bytes_sent + 1
    /\ last_audio_time' = now
    /\ m_pc' = "loop"
    /\ UNCHANGED <<cacheVars, serviceVars, is_recording, queueVars, transcription_count,
                   last_transcript, last_translation, audio, conn, close_sent,
                   workerVars, listenerVars, keepaliveVars, envVars, histVars>>

\* while self.is_recording: then time.sleep(5.0) begins
KeepaliveLoop ==
    /\ k_pc = "loop"
    /\ IF is_recording
       THEN /\ k_pc' = "sleep"
            /\ k_wake' = now + KeepaliveInterval
       ELSE /\ k_pc' = "done"
            /\ UNCHANGED k_wake
    /\ UNCHANGED <<cacheVars, serviceVars, is_recording, queueVars, statVars, mainVars,
                   workerVars, listenerVars, wire, envVars, histVars>>

\* the sleep has ended: current_time = time.time(), and when
\* current_time - self.last_audio_time > 8.0 the silence packet is sent; an
\* exception of send_media breaks out of the loop
KeepaliveCheck(sent) ==
    LET silent == now - last_audio_time > SilenceThreshold
    IN  /\ k_pc = "sleep"
        /\ now >= k_wake
        /\ sent => silent /\ conn \in {"open", "error"}
        /\ wire' = [wire EXCEPT !.check =
                       [silent |-> silent,
                        outcome |-> IF ~silent THEN "none"
                                    ELSE IF sent THEN "sent" ELSE "raise"]]
        /\ k_pc' = IF silent /\ ~sent THEN "done" ELSE "loop"
        /\ UNCHANGED <<cacheVars, serviceVars, is_recording, queueVars, statVars, mainVars,
                       workerVars, listenerVars, k_wake, envVars, histVars>>

\* a second passes
Elapse ==
    /\ now < MaxClock
    /\ m_pc # "stamp"
    /\ now' = now + 1
    /\ UNCHANGED <<cache, timestamps, maxsize, ttl_seconds, cache_file, save_threads,
                   cache_op, lock, c_threads, serviceVars, sessionVars>>

\* a session in the read loop, the keepalive thread just started
InitKeepalive ==
    /\ CacheInit(AbsentFile, 0, DefaultTtl, DefaultCacheMaxsize)
    /\ ServiceInit("google", "google", FALSE, TRUE)
    /\ NoClients
    /\ Streaming(QueueMaxsize, 0, 0)

KeepaliveThread ==
    \/ KeepaliveLoop
    \/ \E sent \in BOOLEAN : KeepaliveCheck(sent)

NextKeepalive ==
    \/ LoopCheck
    \/ \E outcome \in {"sent", "empty", "raise"} : ReadFrame(outcome)
    \/ StampFrame
    \/ InnerFinally
    \/ CloseStream
    \/ JoinListener
    \/ ExitWith
    \/ Stop
    \/ ConnError
    \/ ConnClose
    \/ KeepaliveThread
    \/ Elapse

SpecKeepalive == InitKeepalive /\ [][NextKeepalive]_vars

\* the step in which the keepalive thread makes its check
KeepaliveChecks == k_pc = "sleep" /\ k_pc' # "sleep"

\* the check sent, or tried to send, the silence packet
KeepaliveAttempted == wire'.check.outcome # "none"

\* a keepalive is attempted only when more than 8 seconds have passed since
\* the last real frame went out, and it leaves last_audio_time alone
C26_OnlyAfterSilence ==
    KeepaliveChecks /\ KeepaliveAttempted
       => /\ wire.frame_at # NoFrame => now - wire.frame_at > SilenceThreshold
          /\ last_audio_time' = last_audio_time

\* once the read loop is past a frame, last_audio_time is not older than it
C26_FrameSetsTimestamp ==
    wire.frame_at # NoFrame /\ m_pc # "stamp" => last_audio_time >= wire.frame_at

\* C26: at each keepalive check a silence frame is sent only if more than 8
\* seconds have elapsed since the last real audio frame was sent; sending a
\* keepalive never changes last_audio_time; and every real frame forwarded by
\* the read loop sets it, so that no keepalive is sent at a check that falls
\* within 8 seconds after a real frame.
C26_KeepaliveOnlyInSilence ==
    []C26_FrameSetsTimestamp /\ [][C26_OnlyAfterSilence]_vars

\* The keepalive thread is scheduled, the read loop gets from send_media to
\* the statements that follow it, and time passes.  Nothing is assumed of the
\* audio source, of the user (stop()) nor of the connection.
SpecKeepaliveFair ==
    /\ SpecKeepalive
    /\ WF_vars(KeepaliveThread)
    /\ WF_vars(StampFrame)
    /\ WF_vars(Elapse)

\* a check made while the session is active and last_audio_time is more than
\* 8 seconds old attempts the silence frame
C27_AttemptedAtEveryCheck ==
    KeepaliveChecks /\ is_recording /\ now - last_audio_time > SilenceThreshold
       => KeepaliveAttempted

\* the keepalive loop goes on for as long as the session is active
C27_LoopOutlivesFailedSends == is_recording => k_pc # "done"

\* once the session has stopped the loop ends (within the clock of the model)
C27_LoopTerminates == ~is_recording ~> (k_pc = "done" \/ now = MaxClock)

\* C27: while the session remains active and no real audio is sent, once the
\* 8-second threshold is exceeded a keepalive silence frame is attempted at
\* every 5-second check for as long as the session is active and the silence
\* lasts, whatever the outcome of earlier keepalive sends; and once the
\* session stops, the keepalive loop terminates.
C27_KeepaliveKeepsFiring ==
    /\ [][C27_AttemptedAtEveryCheck]_vars
    /\ []C27_LoopOutlivesFailedSends
    /\ C27_LoopTerminates

(***************************************************************************)
(* The periodic save: one client that calls set and counts its calls, on   *)
(* a cache constructed on no file or on a file of SaveEvery - 1 entries.   *)
(***************************************************************************)
SaveKeyNames == <<"k1", "k2", "k3", "k4", "k5", "k6", "k7", "k8", "k9", "k10">>

\* a file of n fresh entries k1 .. kn
FileOf(n) == JsonFile([i \in 1..n |-> Entry(SaveKeyNames[i], "dict", "v1", 0)])

\* the client has made no set call
NoSets == [pc |-> "idle", sets |-> 0]

InitSaveEvery ==
    /\ \E file \in {AbsentFile, FileOf(SaveEvery - 1)},
          msize \in {SaveEvery, DefaultCacheMaxsize} :
          CacheInit(file, 0, DefaultTtl, msize)
    /\ ServiceInit("none", Unset, FALSE, FALSE)
    /\ c_threads = <<NoSets>>
    /\ TranscriberInit(QueueMaxsize, 0)

\* the client's next cache.set(key, value), with at most limit save threads
\* alive
SetUpTo(key, value, limit) ==
    LET o  == CacheObj(cache, timestamps)
        o1 == SetState(o, key, value, now, maxsize)
    IN  /\ c_threads[1].sets < MaxSets
        /\ Len(save_threads) + o1.spawned <= limit
        /\ cache' = o1.cache
        /\ timestamps' = o1.timestamps
        /\ save_threads' = Spawn(save_threads, o1.spawned)
        /\ cache_op' = HistorySet(cache_op, o, o1, key, value, now)
        /\ c_threads' = [c_threads EXCEPT ![1].sets = @ + 1]
        /\ UNCHANGED <<maxsize, ttl_seconds, cache_file, lock, now, serviceVars,
                       sessionVars>>

SetCounted(key, value) == SetUpTo(key, value, MaxSaves)

NextSaveEvery ==
    \/ \E key \in {"k1", "k10"} : SetCounted(key, "v2")
    \/ \E i \in DOMAIN save_threads : SaveSnapshot(i)
    \/ \E i \in DOMAIN save_threads : SaveWrite(i)

SpecSaveEvery == InitSaveEvery /\ [][NextSaveEvery]_vars

\* the step is a set call of the client
SetReturns == c_threads'[1].sets = c_threads[1].sets + 1

\* the step started a save thread
SaveTriggered == Len(save_threads') > Len(save_threads)

\* C31: a background save is triggered on exactly every 10th successful set
\* call (the 10th, 20th, ...) and on no other set call, whatever the current
\* size of the cache, its maxsize, and whether the set inserts a new key or
\* updates a resident one.
C31_SaveEveryTenthSet ==
    [][SetReturns => (SaveTriggered <=> c_threads'[1].sets % SaveEvery = 0)]_vars

(***************************************************************************)
(* The order of the completion callbacks: a session that is streaming, the *)
(* connection emits MaxItems final transcripts, the worker batches them as *)
(* the scheduling has it, and a callback returns or raises.                *)
(***************************************************************************)
InitOrder ==
    /\ CacheInit(AbsentFile, 0, DefaultTtl, DefaultCacheMaxsize)
    /\ ServiceInit("google", "google", FALSE, TRUE)
    /\ NoClients
    /\ Streaming(QueueMaxsize, 0, MaxItems)

NextOrder ==
    \/ HandlerFinal("a")
    \/ HandlerEnqueue
    \/ WorkerCond
    \/ WorkerCondQueue
    \/ WorkerCollect
    \/ WorkerSleep
    \/ WorkerTranslate(AllOk(Len(batch_items)))
    \/ \E raises \in BOOLEAN : WorkerCallback(raises)
    \/ WorkerAck
    \/ WorkerExit
    \/ Stop

SpecOrder == InitOrder /\ [][NextOrder]_vars

\* the position of item u in the worker's batch, 0 when it is not in it
BatchIndex(u) ==
    IF \E i \in DOMAIN batch_items : batch_items[i].timestamp = u
    THEN CHOOSE i \in DOMAIN batch_items : batch_items[i].timestamp = u
    ELSE 0

\* the callback of item u has been invoked and has returned: in this pass
\* over the batch, or in a batch the worker has finished
DeliveredBefore(u) ==
    /\ CallbackInvoked(u)
    /\ u \notin QueuedStamps
    /\ BatchIndex(u) < w_i \/ BatchIndex(u) = 0

\* the step invokes the callback of item t
CallbackStep(t) ==
    /\ w_pc \in {"callback", "final_callback"}
    /\ w_pc' # w_pc \/ w_i' # w_i \/ cb_count' # cb_count \/ events' # events
    /\ batch_items[w_i].timestamp = t

\* C36: completion callbacks are invoked in enqueue order: if item A was
\* accepted into the translation queue before item B, A's translation event
\* is delivered to the consumer before B's, for every batching of the items
\* by the single worker.
C36_CallbacksInOrder ==
    [][\A t \in 1..MaxItems :
          CallbackStep(t) =>
             \A u \in accepted : u < t => DeliveredBefore(u)]_vars

\* three items went through batches of different sizes, one callback raised
\* and its batch was processed again
C36_Witness ==
    /\ \A t \in 1..MaxItems : CallbackInvoked(t)
    /\ cb_count[1] = 2
    /\ translation_queue = <<>>
    /\ w_pc = "cond"
    /\ batch_items = <<>>

(***************************************************************************)
(* Concurrent saves: a full cache of SaveEvery entries, where every set    *)
(* starts a save thread while the threads of earlier sets are still alive. *)
(* The write of a thread is two steps: open(cache_file, 'w') truncates the *)
(* file, json.dump writes the snapshot through the thread's own handle.    *)
(***************************************************************************)
InitSaves ==
    /\ CacheInit(FileOf(SaveEvery - 1), 0, DefaultTtl, SaveEvery)
    /\ ServiceInit("none", Unset, FALSE, FALSE)
    /\ c_threads = <<NoSets>>
    /\ TranscriberInit(QueueMaxsize, 0)

\* save(): open(self.cache_file, 'w')
SaveOpen(i) ==
    /\ save_threads[i].pc = "write"
    /\ cache_file' = EmptyFile
    /\ save_threads' = [save_threads EXCEPT ![i].pc = "dump"]
    /\ UNCHANGED <<cache, timestamps, maxsize, ttl_seconds, cache_op, lock, c_threads,
                   now, serviceVars, sessionVars>>

\* another thread has written through a handle of its own since this thread
\* truncated the file
WrittenSinceOpen == cache_file # EmptyFile

\* save(): json.dump(data, f) and the close of the file; the thread ends.
\* The dump writes from offset 0 over what another handle has written: the
\* file holds this snapshot, or this snapshot followed by the rest of a
\* longer one, which is no JSON
SaveDump(i) ==
    /\ save_threads[i].pc = "dump"
    /\ \E f \in {JsonFile(save_threads[i].data)} \cup
                (IF WrittenSinceOpen THEN {InvalidFile} ELSE {}) :
           cache_file' = f
    /\ save_threads' = [j \in 1..(Len(save_threads) - 1) |->
                           IF j < i THEN save_threads[j] ELSE save_threads[j + 1]]
    /\ UNCHANGED <<cache, timestamps, maxsize, ttl_seconds, cache_op, lock, c_threads,
                   now, serviceVars, sessionVars>>

NextSaves ==
    \/ \E key \in {"k1", "k10"}, value \in {"v1", "v2"} :
          SetUpTo(key, value, MaxWriters)
    \/ \E i \in DOMAIN save_threads : SaveSnapshot(i)
    \/ \E i \in DOMAIN save_threads : SaveOpen(i)
    \/ \E i \in DOMAIN save_threads : SaveDump(i)

SpecSaves == InitSaves /\ [][NextSaves]_vars

\* every save thread has finished, and the last set triggered a save
SavesFinished ==
    /\ save_threads = <<>>
    /\ c_threads[1].sets >= 1
    /\ Len(cache) % SaveEvery = 0

\* C37: after all background save threads have finished, the persisted file
\* is well-formed and holds the snapshot taken by the most recently triggered
\* save (no set came after that trigger, so that snapshot is the cache as it
\* is): a later snapshot is never overwritten by an earlier one, and two
\* concurrent saves never interleave their writes to the file.
C37_LatestSnapshotPersisted ==
    SavesFinished => cache_file = JsonFile(Snapshot(cache, timestamps, now))
====
